---------------------------- MODULE Spec2Model ----------------------------
(***************************************************************************)
(* Sentinel intelligence pipeline (monbon24/Sentinel).                     *)
(*                                                                         *)
(* A text is a sequence of one-character strings.  The module models       *)
(*   - Watchtower.categorize_content and Watchtower.extract_metrics        *)
(*     (with the regular expressions of config.METRIC_PATTERNS run by a    *)
(*     backtracking matcher that follows Python's re semantics),           *)
(*   - the three collection sweeps (feeds, pages, mailbox),                *)
(*   - SynthesisCore (exchange document, summarizer call, fallback         *)
(*     report), and                                                        *)
(*   - main().                                                             *)
(***************************************************************************)
EXTENDS Integers, Sequences, FiniteSets, TLC

VARIABLES
    \* a call of one of the two text functions
    text,               \* argument of categorize_content / extract_metrics
    textPc,             \* "idle" | "input" | "categorized" | "extracted"
    category,           \* result of categorize_content(text)
    metrics,            \* result of extract_metrics(text)
    \* control
    pc,                 \* the statement the program is at
    stack,              \* the statements to return to, innermost first
    result,             \* the value the last call returned
    \* environment
    clock,              \* datetime.now()
    env,                \* which optional libraries and files are present
    \* Watchtower and the local variables of its sweeps
    items_collected,    \* Watchtower.items_collected
    items,              \* the list `items` of the running sweep
    src_i,              \* index of the next feed, page or query of the sweep
    \* Mailroom
    service,            \* Mailroom.service: None until authenticated
    seen_ids,           \* the set seen_ids of search_whitepapers
    mail_items_collected, \* Mailroom.items_collected
    \* main and SynthesisCore
    args,               \* the parsed command line
    web_items,          \* main's web_items
    email_items,        \* main's email_items
    exit_code,          \* what main returned: None until it returns
    model,              \* SynthesisCore.model: None or a configured model
    intelligence_data,  \* the exchange document (JSON text)
    report,             \* the report text, a sequence of lines
    output_file,        \* the report file: None until save_report wrote it
    \* history
    events,             \* what the collaborators were asked and answered
    raw                 \* raw[k] is the raw record items[k] was made from

textVars == <<text, textPc, category, metrics>>
ctlVars  == <<pc, stack, result>>
envVars  == <<clock, env>>
wtVars   == <<items_collected, items, src_i>>
mailVars == <<service, seen_ids, mail_items_collected>>
mainVars == <<args, web_items, email_items, exit_code>>
synVars  == <<model, intelligence_data, report, output_file>>

histVars == <<events, raw>>

vars == <<textVars, ctlVars, envVars, wtVars, mailVars, mainVars, synVars, histVars>>

-----------------------------------------------------------------------------
(* Generic helpers                                                         *)

Min(S) == CHOOSE x \in S : \A y \in S : x <= y

Range(s) == {s[i] : i \in 1..Len(s)}

\* s[:n] of Python
Take(s, n) == IF Len(s) <= n THEN s ELSE SubSeq(s, 1, n)

\* s[:n] of Python for a list (same slicing rule)
Prefix(s, n) == Take(s, n)

RECURSIVE Concat(_)
\* the concatenation of a sequence of sequences
Concat(ss) == IF ss = <<>> THEN <<>> ELSE Head(ss) \o Concat(Tail(ss))

\* all sequences over S of length at most n
SeqsUpTo(S, n) == UNION {[1..k -> S] : k \in 0..n}

-----------------------------------------------------------------------------
(* Characters                                                              *)

UpperCase == <<"A","B","C","D","E","F","G","H","I","J","K","L","M",
               "N","O","P","Q","R","S","T","U","V","W","X","Y","Z">>
LowerCase == <<"a","b","c","d","e","f","g","h","i","j","k","l","m",
               "n","o","p","q","r","s","t","u","v","w","x","y","z">>

Digits == {"0","1","2","3","4","5","6","7","8","9"}

\* \s of the re module, on the characters the model uses
Whitespace == {" ", "\n", "\t"}

\* one character of str.lower()
LowerChar(c) ==
    IF \E i \in 1..26 : UpperCase[i] = c
    THEN LowerCase[CHOOSE i \in 1..26 : UpperCase[i] = c]
    ELSE c

\* str.lower()
Lower(t) == [i \in 1..Len(t) |-> LowerChar(t[i])]

\* `kw in t` of Python: kw occurs in t as a contiguous substring
IsSubstring(kw, t) ==
    \E i \in 1..(Len(t) - Len(kw) + 1) :
        \A j \in 1..Len(kw) : t[i + j - 1] = kw[j]

-----------------------------------------------------------------------------
(* config.CATEGORY_KEYWORDS, in the insertion order of the dict            *)

CATEGORY_KEYWORDS == <<
  [category |-> "customer_improvement", keywords |->
   <<<<"c","u","s","t","o","m","e","r">>,
     <<"c","a","s","e"," ","s","t","u","d","y">>,
     <<"s","u","c","c","e","s","s"," ","s","t","o","r","y">>,
     <<"t","e","s","t","i","m","o","n","i","a","l">>,
     <<"i","m","p","l","e","m","e","n","t","a","t","i","o","n">>,
     <<"d","e","p","l","o","y","e","d">>,
     <<"a","d","o","p","t","e","d">>,
     <<"i","n","t","e","g","r","a","t","e","d">>,
     <<"s","a","v","e","d">>,
     <<"r","e","d","u","c","e","d">>,
     <<"i","m","p","r","o","v","e","d">>,
     <<"i","n","c","r","e","a","s","e","d">>,
     <<"r","o","i">>>>],
  [category |-> "breakthrough", keywords |->
   <<<<"b","r","e","a","k","t","h","r","o","u","g","h">>,
     <<"n","o","v","e","l">>,
     <<"f","i","r","s","t">>,
     <<"r","e","v","o","l","u","t","i","o","n","a","r","y">>,
     <<"d","i","s","c","o","v","e","r","y">>,
     <<"s","t","a","t","e","-","o","f","-","t","h","e","-","a","r","t">>,
     <<"s","o","t","a">>,
     <<"u","n","p","r","e","c","e","d","e","n","t","e","d">>,
     <<"g","r","o","u","n","d","b","r","e","a","k","i","n","g">>>>],
  [category |-> "use_case", keywords |->
   <<<<"h","o","w"," ","t","o">>,
     <<"t","u","t","o","r","i","a","l">>,
     <<"i","m","p","l","e","m","e","n","t","a","t","i","o","n">>,
     <<"u","s","e"," ","c","a","s","e">>,
     <<"g","u","i","d","e">>,
     <<"e","x","a","m","p","l","e">>,
     <<"d","e","m","o">>,
     <<"s","h","o","w","c","a","s","e">>,
     <<"p","r","a","c","t","i","c","a","l">>>>],
  [category |-> "white_paper", keywords |->
   <<<<"p","a","p","e","r">>,
     <<"r","e","s","e","a","r","c","h">>,
     <<"s","t","u","d","y">>,
     <<"a","r","x","i","v">>,
     <<"j","o","u","r","n","a","l">>,
     <<"p","d","f">>,
     <<"p","r","e","p","r","i","n","t">>,
     <<"p","u","b","l","i","c","a","t","i","o","n">>,
     <<"t","e","c","h","n","i","c","a","l"," ","r","e","p","o","r","t">>>>] >>

RECURSIVE ScanKeywords(_, _, _)
\* the two nested loops of categorize_content, resumed at category c, keyword k
ScanKeywords(text_lower, c, k) ==
    IF c > Len(CATEGORY_KEYWORDS) THEN "general"
    ELSE IF k > Len(CATEGORY_KEYWORDS[c].keywords)
         THEN ScanKeywords(text_lower, c + 1, 1)
    ELSE IF IsSubstring(CATEGORY_KEYWORDS[c].keywords[k], text_lower)
         THEN CATEGORY_KEYWORDS[c].category
    ELSE ScanKeywords(text_lower, c, k + 1)

\* categorize_content without text.lower()
categorize_content_case_sensitive(t) == ScanKeywords(t, 1, 1)

\* Watchtower.categorize_content
categorize_content(t) == ScanKeywords(Lower(t), 1, 1)

-----------------------------------------------------------------------------
(* Regular expressions: a backtracking matcher.                            *)
(*                                                                         *)
(* Match(n, t, st) is the sequence of matcher states reachable by matching *)
(* node n on text t from state st, in the order in which a backtracking    *)
(* engine tries them (greedy quantifiers, alternatives left to right).     *)
(* The first element is the match re finds.  All patterns of the program   *)
(* are compiled with re.IGNORECASE: literals are lower case and compared   *)
(* with the lower-cased character of the text.                             *)

Lit(s)  == [t |-> "lit", s |-> s]
Cls(c)  == [t |-> "cls", c |-> c]
Cat(xs) == [t |-> "cat", xs |-> xs]
Alt(xs) == [t |-> "alt", xs |-> xs]
Opt(x)  == [t |-> "opt", x |-> x]
Star(x) == [t |-> "star", x |-> x]
Plus(x) == Cat(<<x, Star(x)>>)
Grp(x)  == [t |-> "grp", x |-> x]

\* matcher state: pos is the index of the next character, cs..ce-1 is group 1
MState(p) == [pos |-> p, cs |-> 0, ce |-> 0]

RECURSIVE Match(_, _, _)
RECURSIVE MatchEach(_, _, _, _)
RECURSIVE MatchCat(_, _, _, _)
RECURSIVE MatchAlt(_, _, _, _)
RECURSIVE StarEach(_, _, _, _)

MatchEach(n, t, sts, k) ==
    IF k > Len(sts) THEN <<>>
    ELSE Match(n, t, sts[k]) \o MatchEach(n, t, sts, k + 1)

MatchCat(xs, k, t, sts) ==
    IF k > Len(xs) THEN sts
    ELSE MatchCat(xs, k + 1, t, MatchEach(xs[k], t, sts, 1))

MatchAlt(xs, k, t, st) ==
    IF k > Len(xs) THEN <<>>
    ELSE Match(xs[k], t, st) \o MatchAlt(xs, k + 1, t, st)

MatchStar(x, t, st) ==
    LET once == SelectSeq(Match(x, t, st), LAMBDA r : r.pos > st.pos)
    IN  StarEach(x, t, once, 1) \o <<st>>

StarEach(x, t, sts, k) ==
    IF k > Len(sts) THEN <<>>
    ELSE MatchStar(x, t, sts[k]) \o StarEach(x, t, sts, k + 1)

Match(n, t, st) ==
    CASE n.t = "lit" ->
           IF /\ st.pos + Len(n.s) - 1 <= Len(t)
              /\ \A i \in 1..Len(n.s) : LowerChar(t[st.pos + i - 1]) = n.s[i]
           THEN <<[st EXCEPT !.pos = @ + Len(n.s)]>>
           ELSE <<>>
      [] n.t = "cls" ->
           IF st.pos <= Len(t) /\ t[st.pos] \in n.c
           THEN <<[st EXCEPT !.pos = @ + 1]>>
           ELSE <<>>
      [] n.t = "cat"  -> MatchCat(n.xs, 1, t, <<st>>)
      [] n.t = "alt"  -> MatchAlt(n.xs, 1, t, st)
      [] n.t = "opt"  -> Match(n.x, t, st) \o <<st>>
      [] n.t = "star" -> MatchStar(n.x, t, st)
      [] n.t = "grp"  ->
           LET r == Match(n.x, t, st)
           IN  [i \in 1..Len(r) |-> [r[i] EXCEPT !.cs = st.pos, !.ce = r[i].pos]]

\* re.match at position p: <<>> or <<the first match>>
MatchAt(pattern, t, p) ==
    LET r == Match(pattern, t, MState(p))
    IN  IF r = <<>> THEN <<>> ELSE <<r[1]>>

RECURSIVE FindAllFrom(_, _, _)
\* re.findall for a pattern with one group, scanning from position p:
\* leftmost match, its group, then on from the end of the match
FindAllFrom(pattern, t, p) ==
    LET starts == {i \in p..(Len(t) + 1) : MatchAt(pattern, t, i) # <<>>}
    IN  IF starts = {} THEN <<>>
        ELSE LET i == Min(starts)
                 m == MatchAt(pattern, t, i)[1]
             IN  <<SubSeq(t, m.cs, m.ce - 1)>>
                 \o FindAllFrom(pattern, t, IF m.pos = i THEN i + 1 ELSE m.pos)

\* re.findall(pattern, text, re.IGNORECASE)
FindAll(pattern, t) == FindAllFrom(pattern, t, 1)

-----------------------------------------------------------------------------
(* config.METRIC_PATTERNS, in the insertion order of the dict              *)

\* \s
WS == Cls(Whitespace)

\* \d
Digit == Cls(Digits)

\* \d+(?:\.\d+)?
Decimal == Cat(<<Plus(Digit), Opt(Cat(<<Lit(<<".">>), Plus(Digit)>>))>>)

\* (?:saved?|reduced?)
SavedOrReduced == Alt(<<Cat(<<Lit(<<"s","a","v","e">>), Opt(Lit(<<"d">>))>>),
    Cat(<<Lit(<<"r","e","d","u","c","e">>), Opt(Lit(<<"d">>))>>)>>)

\* (?:increased?|improved?|reduced?|saved?|grew?|boost(?:ed)?)\s+(?:by\s+)?(\d+(?:\.\d+)?)\s*%
PercentagePattern ==
    Cat(<<Alt(<<Cat(<<Lit(<<"i","n","c","r","e","a","s","e">>), Opt(Lit(<<"d">>))>>),
        Cat(<<Lit(<<"i","m","p","r","o","v","e">>), Opt(Lit(<<"d">>))>>),
        Cat(<<Lit(<<"r","e","d","u","c","e">>), Opt(Lit(<<"d">>))>>),
        Cat(<<Lit(<<"s","a","v","e">>), Opt(Lit(<<"d">>))>>), Cat(<<Lit(<<"g","r","e">>),
        Opt(Lit(<<"w">>))>>), Cat(<<Lit(<<"b","o","o","s","t">>),
        Opt(Lit(<<"e","d">>))>>)>>),
          Plus(WS),
          Opt(Cat(<<Lit(<<"b","y">>), Plus(WS)>>)),
          Grp(Decimal),
          Star(WS),
          Lit(<<"%">>)>>)

\* (\d+(?:\.\d+)?)\s*x\s+(?:faster|better|more efficient|improvement)
MultiplierPattern ==
    Cat(<<Grp(Decimal),
          Star(WS),
          Lit(<<"x">>),
          Plus(WS),
          Alt(<<Lit(<<"f","a","s","t","e","r">>), Lit(<<"b","e","t","t","e","r">>),
              Lit(<<"m","o","r","e"," ","e","f","f","i","c","i","e","n","t">>),
              Lit(<<"i","m","p","r","o","v","e","m","e","n","t">>)>>)>>)

\* (?:saved?|reduced?)\s+(\d+(?:\.\d+)?)\s*(?:hours?|days?|weeks?|minutes?|ms|milliseconds?)
TimeSavingsPattern ==
    Cat(<<SavedOrReduced,
          Plus(WS),
          Grp(Decimal),
          Star(WS),
          Alt(<<Cat(<<Lit(<<"h","o","u","r">>), Opt(Lit(<<"s">>))>>),
              Cat(<<Lit(<<"d","a","y">>), Opt(Lit(<<"s">>))>>), Cat(<<Lit(<<"w","e","e","k">>),
              Opt(Lit(<<"s">>))>>), Cat(<<Lit(<<"m","i","n","u","t","e">>),
              Opt(Lit(<<"s">>))>>), Lit(<<"m","s">>),
              Cat(<<Lit(<<"m","i","l","l","i","s","e","c","o","n","d">>),
              Opt(Lit(<<"s">>))>>)>>)>>)

\* the dollar sign required: money amounts only
CostSavingsPattern_dollar_required ==
    Cat(<<SavedOrReduced,
          Plus(WS),
          Lit(<<"$">>),
          Grp(Cat(<<Plus(Digit),
                    Star(Cat(<<Lit(<<",">>), Digit, Digit, Digit>>)),
                    Opt(Cat(<<Lit(<<".">>), Plus(Digit)>>))>>)),
          Star(WS),
          Opt(Alt(<<Lit(<<"m","i","l","l","i","o","n">>), Lit(<<"b","i","l","l","i","o","n">>),
              Lit(<<"k">>), Lit(<<"t","h","o","u","s","a","n","d">>)>>))>>)

\* (?:saved?|reduced?)\s+\$?(\d+(?:,\d{3})*(?:\.\d+)?)\s*(?:million|billion|k|thousand)?
CostSavingsPattern ==
    Cat(<<SavedOrReduced,
          Plus(WS),
          Opt(Lit(<<"$">>)),
          Grp(Cat(<<Plus(Digit),
                    Star(Cat(<<Lit(<<",">>), Digit, Digit, Digit>>)),
                    Opt(Cat(<<Lit(<<".">>), Plus(Digit)>>))>>)),
          Star(WS),
          Opt(Alt(<<Lit(<<"m","i","l","l","i","o","n">>), Lit(<<"b","i","l","l","i","o","n">>),
              Lit(<<"k">>), Lit(<<"t","h","o","u","s","a","n","d">>)>>))>>)

METRIC_PATTERNS == <<
    [type |-> "percentage",   pattern |-> PercentagePattern],
    [type |-> "multiplier",   pattern |-> MultiplierPattern],
    [type |-> "time_savings", pattern |-> TimeSavingsPattern],
    [type |-> "cost_savings", pattern |-> CostSavingsPattern] >>

\* text[:200], the context every metric of one call carries
CONTEXT_CHARS == 200

\* the inner loop with re.search in place of re.findall: the first match only
MetricsOfType_first_only(t, k) ==
    LET matches == Take(FindAll(METRIC_PATTERNS[k].pattern, t), 1)
    IN  [i \in 1..Len(matches) |->
            [type    |-> METRIC_PATTERNS[k].type,
             value   |-> matches[i],
             context |-> Take(t, CONTEXT_CHARS)]]

\* the inner loop of extract_metrics: one metric per element of re.findall
MetricsOfType(t, k) ==
    LET matches == FindAll(METRIC_PATTERNS[k].pattern, t)
    IN  [i \in 1..Len(matches) |->
            [type    |-> METRIC_PATTERNS[k].type,
             value   |-> matches[i],
             context |-> Take(t, CONTEXT_CHARS)]]

RECURSIVE MetricsFrom(_, _)
\* the outer loop of extract_metrics, from pattern k on
MetricsFrom(t, k) ==
    IF k > Len(METRIC_PATTERNS) THEN <<>>
    ELSE MetricsOfType(t, k) \o MetricsFrom(t, k + 1)

\* Watchtower.extract_metrics
extract_metrics(t) == MetricsFrom(t, 1)

-----------------------------------------------------------------------------
(* Calls of the two text functions on bounded sets of texts.               *)

\* texts are built from at most this many fragments
MaxCatFragments == 3
MaxMetFragments == 3

\* fragments around the keywords of CATEGORY_KEYWORDS: keywords of each
\* category, in both cases, whole and split over two fragments
CatFragments == {
    <<"C","u","s","t","o","m","e","r">>, <<"B","R","E","A","K","T","H","R","O","U","G","H">>, <<"t","u","t","o","r","i","a","l">>,
    <<"a","r","X","i","v">>, <<"c","a","s","e"," ","s","t","u","d">>, <<"y">>, <<" ">>, <<"n","e","w","s">> }

CatTexts == {Concat(fs) : fs \in SeqsUpTo(CatFragments, MaxCatFragments)}

\* fragments around the patterns of METRIC_PATTERNS
MetFragments == {
    <<"S","a","v","e","d"," ">>, <<"r","e","d","u","c","e","d"," ","b","y"," ">>, <<"3">>, <<"4","0","%">>, <<".","5">>,
    <<" ","h","o","u","r","s">>, <<"x"," ","f","a","s","t","e","r"," ">>, <<"1",",","2","0","0">>, <<"$">>,
    <<"s","a","v","e","d"," ","9"," ">> }

\* "We reduced latency by 40% and saved 3 hours"
SpecExampleText ==
    <<"W","e"," ","r","e","d","u","c","e","d"," ","l","a","t","e","n","c","y"," ","b","y"," ","4","0","%"," ","a","n","d"," ","s","a","v","e","d"," ","3"," ","h","o","u","r","s">>

\* a text longer than CONTEXT_CHARS, with matches on both sides of the cut
Pad(n) == [i \in 1..n |-> "z"]

LongTexts == {
    <<"s","a","v","e","d"," ","7"," ","d","a","y","s"," ">> \o Pad(CONTEXT_CHARS - 15) \o <<" ","s","a","v","e","d"," ","1","2"," ","w","e","e","k","s">>,
    Pad(CONTEXT_CHARS + 1) }

MetTexts ==
    {Concat(fs) : fs \in SeqsUpTo(MetFragments, MaxMetFragments)}
    \cup {SpecExampleText} \cup LongTexts

TextInit(Texts) ==
    /\ text \in Texts
    /\ textPc = "input"
    /\ category = "none"
    /\ metrics = <<>>

\* category = self.categorize_content(text)
Categorize ==
    /\ textPc = "input"
    /\ category' = categorize_content(text)
    /\ textPc' = "categorized"
    /\ UNCHANGED <<text, metrics>>
    /\ UNCHANGED <<ctlVars, envVars, wtVars, mailVars, mainVars, synVars, events, raw>>

\* metrics = self.extract_metrics(text)
ExtractMetrics ==
    /\ textPc = "input"
    /\ metrics' = extract_metrics(text)
    /\ textPc' = "extracted"
    /\ UNCHANGED <<text, category>>
    /\ UNCHANGED <<ctlVars, envVars, wtVars, mailVars, mainVars, synVars, events, raw>>

-----------------------------------------------------------------------------
(* Claims about the text functions                                         *)

\* the category order the specification declares
DeclaredCategoryOrder ==
    <<"customer_improvement", "breakthrough", "use_case", "white_paper">>

\* kw occurs in t as a substring, letter case ignored
OccursIgnoringCase(kw, t) ==
    \E i \in 1..(Len(t) - Len(kw) + 1) :
        \A j \in 1..Len(kw) : LowerChar(t[i + j - 1]) = LowerChar(kw[j])

\* the categories (by position in the table) with a keyword occurring in t
CategoriesHit(t) ==
    {c \in 1..Len(CATEGORY_KEYWORDS) :
        \E k \in 1..Len(CATEGORY_KEYWORDS[c].keywords) :
            OccursIgnoringCase(CATEGORY_KEYWORDS[c].keywords[k], t)}

\* C5: categorize_content returns the earliest category, in the declared
\* order customer_improvement, breakthrough, use_case, white_paper, that has
\* a keyword occurring in the text as a case-insensitive substring, and
\* general when no keyword occurs (so for the empty text).
C5_FirstMatchWins ==
    textPc = "categorized" =>
        /\ category = IF CategoriesHit(text) = {} THEN "general"
                      ELSE DeclaredCategoryOrder[Min(CategoriesHit(text))]
        /\ (text = <<>> => category = "general")

\* C5 witness: a text in mixed case with keywords of two categories,
\* categorized as the earlier one
C5_Witness ==
    /\ textPc = "categorized"
    /\ text # Lower(text)
    /\ CategoriesHit(text) = {2, 3}
    /\ category = "breakthrough"

\* the metrics of one type, in the order of the result
MetricsWithType(ms, ty) == SelectSeq(ms, LAMBDA m : m.type = ty)

\* C6: extract_metrics("We reduced latency by 40% and saved 3 hours")
\* contains a percentage metric with value "40" and a time_savings metric
\* with value "3", each with the first 200 characters of the input as context.
C6_SpecExample ==
    (textPc = "extracted" /\ text = SpecExampleText) =>
        /\ \E i \in 1..Len(metrics) :
              /\ metrics[i].type = "percentage"
              /\ metrics[i].value = <<"4", "0">>
              /\ metrics[i].context = Take(text, 200)
        /\ \E i \in 1..Len(metrics) :
              /\ metrics[i].type = "time_savings"
              /\ metrics[i].value = <<"3">>
              /\ metrics[i].context = Take(text, 200)

\* the pattern-type order the specification declares
DeclaredTypeOrder == <<"percentage", "multiplier", "time_savings", "cost_savings">>

\* the positions of t at which pattern k matches
MatchStarts(t, k) ==
    {i \in 1..Len(t) : MatchAt(METRIC_PATTERNS[k].pattern, t, i) # <<>>}

\* the end (next position) and the captured number of the match at i
MatchEnd(t, k, i) == MatchAt(METRIC_PATTERNS[k].pattern, t, i)[1].pos
MatchValue(t, k, i) ==
    LET m == MatchAt(METRIC_PATTERNS[k].pattern, t, i)[1]
    IN  SubSeq(t, m.cs, m.ce - 1)

\* S is the set of non-overlapping matches of pattern k, taken left to right:
\* a match is in S exactly when it does not start inside an earlier one of S
IsNonOverlappingScan(t, k, S) ==
    \A i \in MatchStarts(t, k) :
        (i \in S) <=> ~ \E j \in S : j < i /\ i < MatchEnd(t, k, j)

\* the elements of a set of numbers in increasing order
Ascending(S) ==
    CHOOSE s \in [1..Cardinality(S) -> S] :
        \A a, b \in 1..Cardinality(S) : a < b => s[a] < s[b]

\* C7: extract_metrics returns one metric per non-overlapping match of each
\* pattern, grouped by pattern type in the declared order and ordered by
\* position within a type; every metric carries the first 200 characters of
\* the input as context; a text without a match yields the empty sequence.
C7_OnePerMatchInOrder ==
    textPc = "extracted" =>
        /\ \A i \in 1..Len(metrics) :
              /\ metrics[i].context = Take(text, 200)
              /\ \E k \in 1..4 : metrics[i].type = DeclaredTypeOrder[k]
        /\ \A i, j \in 1..Len(metrics) :
              i < j =>
                \E a, b \in 1..4 :
                    /\ a <= b
                    /\ metrics[i].type = DeclaredTypeOrder[a]
                    /\ metrics[j].type = DeclaredTypeOrder[b]
        /\ \A k \in 1..4 :
              \E S \in SUBSET MatchStarts(text, k) :
                  /\ IsNonOverlappingScan(text, k, S)
                  /\ LET found == MetricsWithType(metrics, DeclaredTypeOrder[k])
                         at    == Ascending(S)
                     IN  /\ Len(found) = Cardinality(S)
                         /\ \A n \in 1..Len(found) :
                               found[n].value = MatchValue(text, k, at[n])
        /\ ((\A k \in 1..4 : MatchStarts(text, k) = {}) => metrics = <<>>)

\* C7 witness: a text longer than the context, with two matches of one type
\* and matches of two types
C7_Witness ==
    /\ textPc = "extracted"
    /\ Len(text) > CONTEXT_CHARS
    /\ Len(MetricsWithType(metrics, "time_savings")) = 2
    /\ Len(MetricsWithType(metrics, "cost_savings")) = 2
    /\ metrics[1].value # metrics[2].value

\* C19: the cost_savings pattern subsumes the time_savings pattern: for every
\* input text each time_savings Metric returned by extract_metrics is
\* accompanied by a cost_savings Metric with the same value in the same
\* result, and there are at least as many cost_savings metrics as
\* time_savings metrics; a pure time claim such as "saved 3 hours" is also
\* reported as a cost saving.
C19_CostSubsumesTime ==
    textPc = "extracted" =>
        LET time == MetricsWithType(metrics, "time_savings")
            cost == MetricsWithType(metrics, "cost_savings")
        IN  /\ Len(cost) >= Len(time)
            /\ \A i \in 1..Len(time) :
                  \E j \in 1..Len(cost) : cost[j].value = time[i].value
            /\ \A v \in {time[i].value : i \in 1..Len(time)} :
                  Cardinality({j \in 1..Len(cost) : cost[j].value = v})
                      >= Cardinality({i \in 1..Len(time) : time[i].value = v})

\* C19 witness: extract_metrics("Saved 3 hours") has returned a time_savings
\* metric and a cost_savings metric, both with value "3"
C19_Witness ==
    /\ textPc = "extracted"
    /\ text = <<"S","a","v","e","d"," ","3"," ","h","o","u","r","s">>
    /\ \E i \in 1..Len(metrics) :
          metrics[i].type = "time_savings" /\ metrics[i].value = <<"3">>
    /\ \E j \in 1..Len(metrics) :
          metrics[j].type = "cost_savings" /\ metrics[j].value = <<"3">>

-----------------------------------------------------------------------------
(* Configuration (config.py) and the values the program handles            *)

\* config.RSS_FEEDS: the URLs are only handed to the feed parser
RSS_FEEDS == <<
    "https://techcrunch.com/category/artificial-intelligence/feed/",
    "https://venturebeat.com/category/ai/feed/",
    "https://www.theverge.com/ai-artificial-intelligence/rss/index.xml",
    "https://www.wired.com/feed/tag/ai/latest/rss",
    "https://arxiv.org/rss/cs.AI",
    "https://arxiv.org/rss/cs.LG",
    "https://openai.com/blog/rss/",
    "https://blog.google/technology/ai/rss/",
    "https://www.anthropic.com/news/feed.xml",
    "https://developers.googleblog.com/feeds/posts/default",
    "https://news.ycombinator.com/rss" >>

\* config.SCRAPE_TARGETS
SCRAPE_TARGETS == <<
    \* https://cloud.google.com/customers
    <<"h","t","t","p","s",":","/","/","c","l","o","u","d",".","g","o","o","g","l","e",".","c","o","m","/","c","u","s","t","o","m","e","r","s">>,
    \* https://openai.com/customer-stories
    <<"h","t","t","p","s",":","/","/","o","p","e","n","a","i",".","c","o","m","/","c","u","s","t","o","m","e","r","-","s","t","o","r","i","e","s">>,
    \* https://www.microsoft.com/en-us/ai/ai-customer-stories
    <<"h","t","t","p","s",":","/","/","w","w","w",".","m","i","c","r","o","s","o","f","t",".","c","o","m","/","e","n","-","u","s","/","a","i","/","a","i","-","c","u","s","t","o","m","e","r","-","s","t","o","r","i","e","s">>,
    \* https://aws.amazon.com/solutions/case-studies/
    <<"h","t","t","p","s",":","/","/","a","w","s",".","a","m","a","z","o","n",".","c","o","m","/","s","o","l","u","t","i","o","n","s","/","c","a","s","e","-","s","t","u","d","i","e","s","/">>,
    \* https://www.theguardian.com/technology/artificialintelligenceai
    <<"h","t","t","p","s",":","/","/","w","w","w",".","t","h","e","g","u","a","r","d","i","a","n",".","c","o","m","/","t","e","c","h","n","o","l","o","g","y","/","a","r","t","i","f","i","c","i","a","l","i","n","t","e","l","l","i","g","e","n","c","e","a","i">> >>

\* config.GMAIL_QUERIES: the queries are only handed to the mailbox
GMAIL_QUERIES == <<
    "newer_than:2d has:attachment filename:pdf subject:(whitepaper OR \"white paper\")",
    "newer_than:2d has:attachment filename:pdf subject:(\"research report\" OR \"technical report\")",
    "newer_than:2d has:attachment filename:pdf subject:(\"technical deep dive\" OR \"case study\")",
    "newer_than:7d label:newsletters has:attachment filename:pdf",
    "newer_than:3d from:(newsletter OR digest) subject:(AI OR \"artificial intelligence\" OR \"machine learning\")" >>

MAX_RSS_ITEMS_PER_FEED == 10
MAX_DEEP_WEB_PAGES == 5
MAX_EMAIL_RESULTS == 20

\* the literal bounds of the slices in the code
SUMMARY_CHARS == 500
ARTICLES_PER_PAGE == 10
SOURCE_URL_CHARS == 30
PDF_PAGES == 10
PDF_CHARS == 5000

\* the model visits the first NumFeeds feeds, NumPages pages, NumQueries queries
NumFeeds == 2
NumPages == 2
NumQueries == 2

Feeds == Take(RSS_FEEDS, NumFeeds)
Pages == Take(Take(SCRAPE_TARGETS, MAX_DEEP_WEB_PAGES), NumPages)
Queries == Take(GMAIL_QUERIES, NumQueries)

\* Optional[...]: None is <<>>, a value x is <<x>>
None == <<>>
Some(x) == <<x>>

\* dict.get(key, default) on a record that has a field only for the keys present
Get(d, key, default) == IF key \in DOMAIN d THEN d[key] ELSE default

\* str(n) for a natural number
RECURSIVE Str(_)
Str(n) ==
    LET d == <<"0","1","2","3","4","5","6","7","8","9">>
    IN  IF n < 10 THEN <<d[n + 1]>> ELSE Str(n \div 10) \o <<d[(n % 10) + 1]>>

\* datetime.now().isoformat(), the clock being a number
IsoFormat(now) == <<"T">> \o Str(now)

\* t.startswith(p)
StartsWith(t, p) == Len(t) >= Len(p) /\ SubSeq(t, 1, Len(p)) = p

\* t.endswith(p)
EndsWith(t, p) == Len(t) >= Len(p) /\ SubSeq(t, Len(t) - Len(p) + 1, Len(t)) = p

\* str.strip(): leading and trailing whitespace removed
Strip(t) ==
    LET keep == {i \in 1..Len(t) : t[i] \notin Whitespace}
    IN  IF keep = {} THEN <<>>
        ELSE SubSeq(t, Min(keep), CHOOSE i \in keep : \A j \in keep : j <= i)

RECURSIVE StripTags(_)
\* BeautifulSoup(t, 'html.parser').get_text() on text with well-formed tags:
\* everything from a "<" to the next ">" is dropped
StripTags(t) ==
    LET opens == {i \in 1..Len(t) : t[i] = "<"}
    IN  IF opens = {} THEN t
        ELSE LET i == Min(opens)
                 closes == {j \in i..Len(t) : t[j] = ">"}
             IN  IF closes = {} THEN t
                 ELSE SubSeq(t, 1, i - 1)
                      \o StripTags(SubSeq(t, Min(closes) + 1, Len(t)))

\* IntelligenceItem(...)
IntelligenceItem(title, source, link, summary, timestamp, cat, ms) ==
    [title |-> title, source |-> source, link |-> link, summary |-> summary,
     timestamp |-> timestamp, category |-> cat, metrics |-> ms]

\* the markup removed and nothing cut
CleanSummary_uncut(given) == StripTags(given)

\* BeautifulSoup(summary, 'html.parser').get_text()[:500]
CleanSummary(given) == Take(StripTags(given), SUMMARY_CHARS)

\* the body of the entry loop of fetch_rss_intelligence: the item of one entry

FeedItem(entry, feed_title, now) ==
    LET given   == Get(entry, "summary", Get(entry, "description", <<>>))
        summary == IF given # <<>> THEN CleanSummary(given) ELSE given
        combined_text == Get(entry, "title", <<>>) \o <<" ">> \o summary
    IN  IntelligenceItem(Get(entry, "title", <<"U","n","t","i","t","l","e","d">>),
                         feed_title,
                         Get(entry, "link", <<>>),
                         summary,
                         Get(entry, "published", IsoFormat(now)),
                         categorize_content(combined_text),
                         extract_metrics(combined_text))

\* the body of the article loop of fetch_deep_web_intelligence: the items
\* (none or one) of one article.  title_el, link_el and summary_el are the
\* fields title, a and p of the fragment; a link element without href has
\* the field a set to None.
ArticleItems(article, url, now) ==
    IF "title" \in DOMAIN article
    THEN LET title   == Strip(article.title)
             link    == IF "a" \in DOMAIN article
                        THEN (IF article.a = None THEN <<>> ELSE article.a[1])
                        ELSE url
             summary == IF "p" \in DOMAIN article
                        THEN Take(Strip(article.p), SUMMARY_CHARS)
                        ELSE <<>>
             combined_text == title \o <<" ">> \o summary
         IN  <<IntelligenceItem(title,
                                <<"D","e","e","p"," ","W","e","b",":"," ">> \o Take(url, SOURCE_URL_CHARS),
                                IF StartsWith(link, <<"h","t","t","p">>) THEN link ELSE url \o link,
                                summary,
                                IsoFormat(now),
                                categorize_content(combined_text),
                                extract_metrics(combined_text))>>
    ELSE <<>>

-----------------------------------------------------------------------------
(* Control: calls, returns and exceptions no handler catches               *)

\* `return value`: on to the statement after the call
Return(value) ==
    /\ result' = value
    /\ pc' = IF stack = <<>> THEN "returned" ELSE Head(stack)
    /\ stack' = IF stack = <<>> THEN <<>> ELSE Tail(stack)

\* an exception raised where no enclosing try catches it: neither
\* Watchtower.run, Mailroom.run, SynthesisCore.run nor main has a handler,
\* so it unwinds every frame
Uncaught ==
    /\ pc' = "uncaught_exception"
    /\ stack' = <<>>
    /\ UNCHANGED result

IsPrefixOf(a, b) == Len(a) <= Len(b) /\ SubSeq(b, 1, Len(a)) = a

-----------------------------------------------------------------------------
(* Watchtower.fetch_rss_intelligence                                       *)

\* feeds the parser can be given: entries without summary, with a summary in
\* markup, with a description only, with a long summary
LongPlain == [i \in 1..(SUMMARY_CHARS + 1) |-> IF i % 7 = 0 THEN " " ELSE "w"]

RawEntries == <<
    [title |-> <<"B","r","e","a","k","t","h","r","o","u","g","h"," ","i","n"," ","R","O","I">>, link |-> <<"h","t","t","p",":","/","/","f","/","1">>, published |-> <<"M","o","n">>],
    [title |-> <<"W","e","e","k","l","y"," ","n","o","t","e","s">>, summary |-> <<"<","p",">","W","e"," ","<","b",">","s","a","v","e","d"," ","3"," ","h","o","u","r","s","<","/","b",">","<","/","p",">">>],
    [description |-> LongPlain, link |-> <<"h","t","t","p",":","/","/","f","/","3">>],
    [title |-> <<"a","r","X","i","v">>, summary |-> <<"<","i",">">> \o LongPlain \o <<"<","/","i",">"," ","t","u","t","o","r","i","a","l">>],
    [title |-> <<"S","h","o","r","t">>, summary |-> <<"<","b",">">> \o SubSeq(LongPlain, 1, SUMMARY_CHARS - 2) \o <<"<","/","b",">">>],
    [title |-> <<"E","m","p","t","y">>, summary |-> <<>>] >>

\* what feedparser.parse can answer: an exception, a feed flagged bozo, or a
\* feed with (or without) a title and its entries; raise_at = k > 0 means
\* that normalizing entry k raises
FeedAnswer(title, entries, raise_at) ==
    [kind |-> "ok", title |-> title, entries |-> entries, raise_at |-> raise_at]

FeedOutcomes == {
    [kind |-> "raise"],
    [kind |-> "bozo"],
    FeedAnswer(None, <<>>, 0),
    FeedAnswer(Some(<<"T","e","c","h","C","r","u","n","c","h">>), <<RawEntries[1], RawEntries[2]>>, 0),
    FeedAnswer(Some(<<"T","e","c","h","C","r","u","n","c","h">>), <<RawEntries[1], RawEntries[2]>>, 2),
    FeedAnswer(None, <<RawEntries[3]>>, 0),
    FeedAnswer(Some(<<"a","r","X","i","v">>), <<RawEntries[4], RawEntries[5]>>, 0),
    FeedAnswer(Some(<<"a","r","X","i","v">>), <<RawEntries[6], RawEntries[1]>>, 1),
    FeedAnswer(Some(<<"W","i","r","e","d">>), [i \in 1..(MAX_RSS_ITEMS_PER_FEED + 1) |-> RawEntries[6]], 0) }

\* the entries of one feed that are normalized: entries[:MAX_RSS_ITEMS_PER_FEED],
\* up to the entry whose normalization raises
FeedEntries(o) ==
    IF o.kind # "ok" THEN <<>>
    ELSE LET entries == Prefix(o.entries, MAX_RSS_ITEMS_PER_FEED)
         IN  IF o.raise_at \in 1..Len(entries)
             THEN Prefix(entries, o.raise_at - 1)
             ELSE entries

\* the items one feed contributes
FeedItems(o, now) ==
    LET feed_title == IF o.title = None THEN <<"U","n","k","n","o","w","n"," ","F","e","e","d">> ELSE o.title[1]
    IN  [k \in 1..Len(FeedEntries(o)) |-> FeedItem(FeedEntries(o)[k], feed_title, now)]

\* does the try block of one source end in its except clause
SourceFailed(o) ==
    \/ o.kind = "raise"
    \/ o.kind = "ok" /\ o.raise_at \in 1..Len(o.entries)

\* history: the number of entries of one feed answer that are due an item,
\* that is the entries of entries[:MAX_RSS_ITEMS_PER_FEED] other than the one
\* whose normalization raises
FeedDue(o) ==
    IF o.kind # "ok" THEN 0
    ELSE LET entries == Prefix(o.entries, MAX_RSS_ITEMS_PER_FEED)
         IN  Len(entries) - (IF o.raise_at \in 1..Len(entries) THEN 1 ELSE 0)

\* a try around the whole loop in place of one inside it: a failure ends the loop
NextSource_try_around_loop(i, failed, n) == IF failed THEN n + 1 ELSE i + 1

\* the index the source loop goes on with after source i of n: every path
\* through the try (normal end, `continue`, except clause) reaches the next
NextSource(i, failed, n) == i + 1

\* fetch_rss_intelligence, up to the loop
FetchRssEnter ==
    /\ pc = "fetch_rss_intelligence"
    /\ items' = <<>>
    /\ src_i' = 1
    /\ raw' = <<>>
    /\ pc' = "rss_loop"
    /\ UNCHANGED <<stack, result, items_collected, events>>
    /\ UNCHANGED <<textVars, envVars, mailVars, mainVars, synVars>>

\* one iteration of `for feed_url in RSS_FEEDS`
FeedStep(feeds, Outcomes) ==
    /\ pc = "rss_loop"
    /\ src_i <= Len(feeds)
    /\ \E o \in Outcomes :
          /\ items' = items \o FeedItems(o, clock)
          /\ raw' = raw \o FeedEntries(o)
          /\ src_i' = NextSource(src_i, SourceFailed(o), Len(feeds))
          /\ events' = Append(events,
                 [op |-> "source", sweep |-> "rss", i |-> src_i,
                  failed |-> SourceFailed(o), got |-> Len(FeedItems(o, clock)),
                  due |-> FeedDue(o)])
    /\ UNCHANGED <<pc, stack, result, items_collected>>
    /\ UNCHANGED <<textVars, envVars, mailVars, mainVars, synVars>>

\* self.items_collected = items, as the Mailroom does, in place of extend
FetchRssReturn_replace(feeds) ==
    /\ pc = "rss_loop"
    /\ src_i > Len(feeds)
    /\ items_collected' = items
    /\ Return(items)
    /\ events' = Append(events, [op |-> "fetched", sweep |-> "rss", items |-> items])
    /\ UNCHANGED <<items, src_i, raw>>
    /\ UNCHANGED <<textVars, envVars, mailVars, mainVars, synVars>>

\* after the loop: self.items_collected.extend(items); return items
FetchRssReturn(feeds) ==
    /\ pc = "rss_loop"
    /\ src_i > Len(feeds)
    /\ items_collected' = items_collected \o items
    /\ Return(items)
    /\ events' = Append(events, [op |-> "fetched", sweep |-> "rss", items |-> items])
    /\ UNCHANGED <<items, src_i, raw>>
    /\ UNCHANGED <<textVars, envVars, mailVars, mainVars, synVars>>

-----------------------------------------------------------------------------
(* Watchtower.fetch_deep_web_intelligence                                  *)

\* article elements a page can hold: with and without a title element, with
\* a relative link, an absolute link, a link element without href, no link
Articles == <<
    [title |-> <<" ","A","c","m","e"," ","a","d","o","p","t","e","d"," ","A","I"," ">>, a |-> Some(<<"/","s","t","o","r","i","e","s","/","a","c","m","e">>), p |-> <<"R","e","d","u","c","e","d"," ","b","y"," ","4","0","%"," ">>],
    [p |-> <<"N","o"," ","h","e","a","d","i","n","g"," ","h","e","r","e">>, a |-> Some(<<"h","t","t","p",":","/","/","x","/","y">>)],
    [title |-> <<"D","e","m","o"," ","d","a","y">>, a |-> None],
    [title |-> <<"S","t","u","d","y">>, p |-> LongPlain] >>

PageAnswer(articles, raise_at) ==
    [kind |-> "ok", entries |-> articles, raise_at |-> raise_at]

\* what rendering one page can give: an exception of page.goto or of the
\* parse, or the article elements; raise_at = k > 0 means that article k raises
PageOutcomes == {
    [kind |-> "raise"],
    PageAnswer(<<>>, 0),
    PageAnswer(<<Articles[1], Articles[2], Articles[3]>>, 0),
    PageAnswer(<<Articles[1], Articles[2], Articles[3]>>, 3),
    PageAnswer(<<Articles[4]>>, 0),
    PageAnswer([i \in 1..(ARTICLES_PER_PAGE + 1) |->
                   IF i % 2 = 0 THEN Articles[2] ELSE Articles[3]], 0) }

RECURSIVE ArticlesItems(_, _, _, _)
\* the items of articles k..n of one page
ArticlesItems(articles, k, n, ctx) ==
    IF k > n THEN <<>>
    ELSE ArticleItems(articles[k], ctx.url, ctx.now)
         \o ArticlesItems(articles, k + 1, n, ctx)

\* every matched fragment in place of articles[:10]
PageArticles_all(o) ==
    IF o.kind # "ok" THEN <<>>
    ELSE IF o.raise_at \in 1..Len(o.entries)
         THEN Prefix(o.entries, o.raise_at - 1)
         ELSE o.entries

\* the articles of one page that are normalized: articles[:10], up to the
\* article that raises
PageArticles(o) ==
    IF o.kind # "ok" THEN <<>>
    ELSE LET articles == Prefix(o.entries, ARTICLES_PER_PAGE)
         IN  IF o.raise_at \in 1..Len(articles)
             THEN Prefix(articles, o.raise_at - 1)
             ELSE articles

\* the items one page contributes
PageItems(o, url, now) ==
    ArticlesItems(PageArticles(o), 1, Len(PageArticles(o)), [url |-> url, now |-> now])

\* history: the number of fragments of one page answer that are due an item,
\* that is the fragments of articles[:10] with a title element other than the
\* one whose normalization raises
PageDue(o) ==
    IF o.kind # "ok" THEN 0
    ELSE LET articles == Prefix(o.entries, ARTICLES_PER_PAGE)
         IN  Cardinality({k \in 1..Len(articles) :
                 "title" \in DOMAIN articles[k] /\ k # o.raise_at})

\* fetch_deep_web_intelligence, up to the loop: without Playwright it returns
\* []; with it, the browser is started outside any try
FetchDeepEnter ==
    /\ pc = "fetch_deep_web_intelligence"
    /\ IF ~ env.playwright
       THEN /\ Return(<<>>)
            /\ events' = Append(events, [op |-> "fetched", sweep |-> "deep", items |-> <<>>])
            /\ UNCHANGED <<items, src_i, raw>>
       ELSE \E launch \in {"ok", "raise"} :
              /\ events' = Append(events, [op |-> "launch", answer |-> launch])
              /\ IF launch = "raise"
                 THEN Uncaught /\ UNCHANGED <<items, src_i, raw>>
                 ELSE /\ items' = <<>>
                      /\ raw' = <<>>
                      /\ src_i' = 1
                      /\ pc' = "deep_loop"
                      /\ UNCHANGED <<stack, result>>
    /\ UNCHANGED items_collected
    /\ UNCHANGED <<textVars, envVars, mailVars, mainVars, synVars>>

\* one iteration of `for url in SCRAPE_TARGETS[:MAX_DEEP_WEB_PAGES]`
PageStep(pages, Outcomes) ==
    /\ pc = "deep_loop"
    /\ src_i <= Len(pages)
    /\ \E o \in Outcomes :
          /\ items' = items \o PageItems(o, pages[src_i], clock)
          /\ raw' = raw \o SelectSeq(PageArticles(o), LAMBDA a : "title" \in DOMAIN a)
          /\ src_i' = NextSource(src_i, SourceFailed(o), Len(pages))
          /\ events' = Append(events,
                 [op |-> "source", sweep |-> "deep", i |-> src_i,
                  failed |-> SourceFailed(o),
                  got |-> Len(PageItems(o, pages[src_i], clock)),
                  due |-> PageDue(o)])
    /\ UNCHANGED <<pc, stack, result, items_collected>>
    /\ UNCHANGED <<textVars, envVars, mailVars, mainVars, synVars>>

\* after the loop: browser.close(), outside any try; then
\* self.items_collected.extend(items); return items
FetchDeepReturn(pages) ==
    /\ pc = "deep_loop"
    /\ src_i > Len(pages)
    /\ \E close \in {"ok", "raise"} :
          IF close = "raise"
          THEN /\ events' = Append(events, [op |-> "close", answer |-> close])
               /\ Uncaught
               /\ UNCHANGED items_collected
          ELSE /\ events' = events \o <<[op |-> "close", answer |-> close],
                                       [op |-> "fetched", sweep |-> "deep", items |-> items]>>
               /\ items_collected' = items_collected \o items
               /\ Return(items)
    /\ UNCHANGED <<items, src_i, raw>>
    /\ UNCHANGED <<textVars, envVars, mailVars, mainVars, synVars>>

-----------------------------------------------------------------------------
(* Mailroom                                                                *)

\* the messages of the mailbox, by identifier: with one PDF attachment; with
\* a text attachment, a PDF part without attachment id and a PDF attachment;
\* without parts and without Subject and From headers
MessageIds == {<<"m","1">>, <<"m","2">>, <<"m","3">>}

Mailbox(id) ==
    CASE id = <<"m","1">> ->
           [payload |-> [headers |-> [Subject |-> <<"A","I"," ","w","h","i","t","e","p","a","p","e","r">>, From |-> <<"a","n","n">>,
                                      Date |-> <<"T","u","e">>],
                         parts |-> <<[filename |-> <<"w","p",".","p","d","f">>,
                                      body |-> [attachmentId |-> <<"a","1">>]]>>],
            snippet |-> <<"O","u","r"," ","n","e","w"," ","p","a","p","e","r">>]
      [] id = <<"m","2">> ->
           [payload |-> [headers |-> [Subject |-> <<"R","e","p","o","r","t">>, From |-> <<"b","o","b">>],
                         parts |-> <<[filename |-> <<"n","o","t","e","s",".","t","x","t">>,
                                      body |-> [attachmentId |-> <<"a","2">>]],
                                     [filename |-> <<"i","n","l","i","n","e",".","p","d","f">>,
                                      body |-> [size |-> <<"0">>]],
                                     [filename |-> <<"s","c","a","n",".","p","d","f">>,
                                      body |-> [attachmentId |-> <<"a","3">>]]>>],
            snippet |-> <<"S","e","e"," ","a","t","t","a","c","h","e","d">>]
      [] id = <<"m","3">> ->
           [payload |-> [headers |-> [Date |-> <<"W","e","d">>]]]

\* the pages of the stored PDF files, as text; scan.pdf has no text layer
PdfPages(filename) ==
    CASE filename = <<"w","p",".","p","d","f">> -> <<<<"R","e","s","u","l","t","s">>, <<"i","m","p","r","o","v","e","d"," ","2","x">>>>
      [] OTHER -> <<<<>>>>

RECURSIVE PagesText(_)
\* text += page.extract_text() + "\n", over the pages
PagesText(pages) ==
    IF pages = <<>> THEN <<>>
    ELSE Head(pages) \o <<"\n">> \o PagesText(Tail(pages))

\* the empty text in place of the two placeholders
extract_pdf_text_no_placeholder(filename, pdf_available, reading) ==
    IF ~ pdf_available \/ reading = "raise" THEN <<>>
    ELSE Take(PagesText(Prefix(PdfPages(filename), PDF_PAGES)), PDF_CHARS)

\* Mailroom.extract_pdf_text: a placeholder without PyPDF2 or when reading
\* raises, else the text of the first 10 pages cut to 5000 characters
extract_pdf_text(filename, pdf_available, reading) ==
    IF ~ pdf_available THEN <<"[","P","D","F"," ","e","x","t","r","a","c","t","i","o","n"," ","u","n","a","v","a","i","l","a","b","l","e","]">>
    ELSE IF reading = "raise" THEN <<"[","P","D","F"," ","e","x","t","r","a","c","t","i","o","n"," ","e","r","r","o","r","]">>
    ELSE Take(PagesText(Prefix(PdfPages(filename), PDF_PAGES)), PDF_CHARS)

\* Mailroom.download_attachment: the file path, or None when anything raises
download_attachment(filename, download) ==
    IF download = "raise" THEN None ELSE Some(<<".","/","d","o","c","s","/">> \o filename)

RECURSIVE ScanParts(_, _, _, _)
\* the loop over the parts of one message, from part k on, with the
\* attachments and pdf_content so far in acc
ScanParts(parts, k, o, acc) ==
    IF k > Len(parts) THEN acc
    ELSE LET part == parts[k]
             is_pdf == EndsWith(Get(part, "filename", <<>>), <<".","p","d","f">>)
             has_id == "attachmentId" \in DOMAIN part.body
             filepath == download_attachment(part.filename, o.download[k])
         IN  IF is_pdf /\ has_id /\ filepath # None
             THEN ScanParts(parts, k + 1, o,
                      [attachments |-> Append(acc.attachments, part.filename),
                       pdf_content |-> Some(extract_pdf_text(part.filename,
                                               o.pdf_available, o.reading[k]))])
             ELSE ScanParts(parts, k + 1, o, acc)

\* EmailIntelligence(...) for one fetched message
EmailItem(id, msg, o, now) ==
    LET headers == msg.payload.headers
        scanned == ScanParts(Get(msg.payload, "parts", <<>>), 1, o,
                             [attachments |-> <<>>, pdf_content |-> None])
    IN  [subject     |-> Get(headers, "Subject", <<"N","o"," ","S","u","b","j","e","c","t">>),
         sender      |-> Get(headers, "From", <<"U","n","k","n","o","w","n">>),
         snippet     |-> Get(msg, "snippet", <<>>),
         gmail_link  |-> <<"h","t","t","p","s",":","/","/","m","a","i","l",".","g","o","o","g","l","e",".","c","o","m","/","m","a","i","l","/","u","/","0","/","#","i","n","b","o","x","/">> \o id,
         timestamp   |-> Get(headers, "Date", IsoFormat(now)),
         attachments |-> scanned.attachments,
         pdf_content |-> scanned.pdf_content]

\* no test: every listed message is processed
AlreadySeen_never(id, seen) == FALSE

\* the test that skips a message of a query result
AlreadySeen(id, seen) == id \in seen

RECURSIVE ScanMessages(_, _, _, _)
\* the loop over the messages of one query result, from message k on; st
\* holds seen_ids, the items and the history so far, and whether the loop
\* was left by an exception.  The identifier is added to seen_ids before the
\* message is fetched.
ScanMessages(messages, k, o, st) ==
    IF k > Len(messages) THEN st
    ELSE LET id == messages[k]
         IN  IF AlreadySeen(id, st.seen) THEN ScanMessages(messages, k + 1, o, st)
             ELSE IF o.raise_at = k
             THEN [st EXCEPT !.seen = @ \cup {id}, !.failed = TRUE,
                             !.log = Append(@, [op |-> "get", id |-> id,
                                                answer |-> "raise"])]
             ELSE ScanMessages(messages, k + 1, o,
                      [st EXCEPT !.seen = @ \cup {id},
                                 !.items = Append(@, EmailItem(id, Mailbox(id), o, st.now)),
                                 !.log = Append(@, [op |-> "get", id |-> id,
                                                    answer |-> "ok"])])

\* what the mailbox can answer to one query: messages().list raises, or it
\* returns identifiers; fetching or parsing the message at position raise_at
\* raises; download[k] and reading[k] say whether downloading and reading the
\* k-th part succeed
PartOutcomes == {
    [download |-> <<"ok", "ok", "ok">>,    reading |-> <<"ok", "ok", "ok">>],
    [download |-> <<"raise", "ok", "ok">>, reading |-> <<"ok", "ok", "ok">>],
    [download |-> <<"ok", "ok", "ok">>,    reading |-> <<"raise", "ok", "raise">>] }

MessageLists == {
    <<>>, <<<<"m","1">>>>, <<<<"m","1">>, <<"m","2">>>>, <<<<"m","2">>, <<"m","1">>>>, <<<<"m","3">>, <<"m","1">>>> }

QueryAnswer(ms, r, po) ==
    [kind |-> "ok", messages |-> ms, raise_at |-> r,
     download |-> po.download, reading |-> po.reading]

QueryOutcomes ==
    {[kind |-> "raise"]}
    \cup UNION {{QueryAnswer(ms, r, po) : r \in 0..Len(ms), po \in PartOutcomes} :
                  ms \in MessageLists}

\* the effect of one query on seen_ids, the items and the history
QueryEffect(o, query_i, seen, its, now, pdf_available) ==
    IF o.kind = "raise"
    THEN [seen |-> seen, items |-> its, failed |-> TRUE, now |-> now,
          log |-> <<[op |-> "list", i |-> query_i, answer |-> "raise", ids |-> {}]>>]
    ELSE ScanMessages(o.messages, 1,
             [raise_at |-> o.raise_at, download |-> o.download,
              reading |-> o.reading, pdf_available |-> pdf_available],
             [seen |-> seen, items |-> its, failed |-> FALSE, now |-> now,
              log |-> <<[op |-> "list", i |-> query_i, answer |-> "ok",
                         ids |-> Range(o.messages)]>>])

\* history: the number of messages of one query answer that are due an item,
\* that is the listed messages not seen before other than the one whose
\* fetching or parsing raises
QueryDue(o, seen) ==
    IF o.kind # "ok" THEN 0
    ELSE Cardinality({k \in 1..Len(o.messages) :
             o.messages[k] \notin seen /\ k # o.raise_at})

\* Mailroom.authenticate: False without the Google libraries or without the
\* credentials file; else the token is loaded, refreshed or requested and the
\* service built, none of it inside a try
authenticate(e, auth) ==
    IF ~ e.gmail_api THEN "false"
    ELSE IF ~ e.credentials THEN "false"
    ELSE IF auth = "raise" THEN "raise"
    ELSE "true"

\* Mailroom.run, up to the call of search_whitepapers
MailroomRun ==
    /\ pc = "mailroom_run"
    /\ \E auth \in {"ok", "raise"} :
          LET a == authenticate(env, auth)
          IN  /\ events' = Append(events, [op |-> "authenticate", answer |-> a])
              /\ CASE a = "false" -> Return(<<>>) /\ UNCHANGED service
                   [] a = "raise" -> Uncaught /\ UNCHANGED service
                   [] a = "true"  -> /\ service' = Some("gmail")
                                     /\ pc' = "search_whitepapers"
                                     /\ stack' = <<"mailroom_run_return">> \o stack
                                     /\ UNCHANGED result
    /\ UNCHANGED <<seen_ids, mail_items_collected, raw>>
    /\ UNCHANGED <<textVars, envVars, wtVars, mainVars, synVars>>

\* Mailroom.run: return self.items_collected
MailroomRunReturn ==
    /\ pc = "mailroom_run_return"
    /\ Return(mail_items_collected)
    /\ UNCHANGED <<textVars, envVars, wtVars, mailVars, mainVars, synVars, events, raw>>

\* search_whitepapers, up to the loop
SearchEnter ==
    /\ pc = "search_whitepapers"
    /\ IF service = None
       THEN Return(<<>>) /\ UNCHANGED <<items, src_i, seen_ids, raw>>
       ELSE /\ items' = <<>>
            /\ raw' = <<>>
            /\ seen_ids' = {}
            /\ src_i' = 1
            /\ pc' = "mail_loop"
            /\ UNCHANGED <<stack, result>>
    /\ UNCHANGED <<items_collected, service, mail_items_collected, events>>
    /\ UNCHANGED <<textVars, envVars, mainVars, synVars>>

\* one iteration of `for query in GMAIL_QUERIES`
QueryStep(queries, Outcomes) ==
    /\ pc = "mail_loop"
    /\ src_i <= Len(queries)
    /\ \E o \in Outcomes :
          LET eff == QueryEffect(o, src_i, seen_ids, items, clock, env.pdf)
          IN  /\ items' = eff.items
              /\ raw' = raw \o [k \in 1..(Len(eff.items) - Len(items)) |->
                                  SelectSeq(eff.log, LAMBDA e :
                                      e.op = "get" /\ e.answer = "ok")[k].id]
              /\ seen_ids' = eff.seen
              /\ src_i' = NextSource(src_i, eff.failed, Len(queries))
              /\ events' = events \o eff.log
                    \o <<[op |-> "source", sweep |-> "mail", i |-> src_i,
                          failed |-> eff.failed, got |-> Len(eff.items) - Len(items),
                          due |-> QueryDue(o, seen_ids)]>>
    /\ UNCHANGED <<pc, stack, result, items_collected, service, mail_items_collected>>
    /\ UNCHANGED <<textVars, envVars, mainVars, synVars>>

\* after the loop: self.items_collected = items; return items
SearchReturn(queries) ==
    /\ pc = "mail_loop"
    /\ src_i > Len(queries)
    /\ mail_items_collected' = items
    /\ Return(items)
    /\ events' = Append(events, [op |-> "fetched", sweep |-> "mail", items |-> items])
    /\ UNCHANGED <<items_collected, items, src_i, service, seen_ids, raw>>
    /\ UNCHANGED <<textVars, envVars, mainVars, synVars>>

-----------------------------------------------------------------------------
(* Claims about the sweeps                                                 *)

InSweep == pc \in {"rss_loop", "deep_loop", "mail_loop"}

\* the number of sources of the running sweep
SweepSources ==
    CASE pc = "rss_loop"  -> Len(Feeds)
      [] pc = "deep_loop" -> Len(Pages)
      [] pc = "mail_loop" -> Len(Queries)
      [] OTHER -> 0

\* the visits of sources in a history
SourceVisits(ev) == SelectSeq(ev, LAMBDA e : e.op = "source")

\* the history visits the sources 1..n, each once, in order
VisitedAll(ev, n) ==
    /\ Len(SourceVisits(ev)) = n
    /\ \A k \in 1..n : SourceVisits(ev)[k].i = k

\* C2: a failure fetching or parsing one source (feed, page, query) never
\* aborts the sweep: while sources remain the sweep goes on to the next one,
\* whatever happened to the current one; no step of the sweep drops an item
\* already collected; and the sweep returns its list only after visiting
\* every source.
C2_FailureIsolation ==
    [][InSweep =>
          /\ IsPrefixOf(items, items')
          /\ (src_i <= SweepSources => (pc' = pc /\ src_i' = src_i + 1))
          /\ (pc' = "returned" =>
                 /\ result' = items
                 /\ VisitedAll(events', SweepSources))]_vars

\* C2 witness: a sweep that returned after its first source failed part-way
\* (one item kept) and its second source gave items
C2_Witness ==
    /\ pc = "returned"
    /\ Len(SourceVisits(events)) = 2
    /\ SourceVisits(events)[1].failed
    /\ SourceVisits(events)[1].got > 0
    /\ ~ SourceVisits(events)[2].failed
    /\ SourceVisits(events)[2].got > 0
    /\ Len(result) = SourceVisits(events)[1].got + SourceVisits(events)[2].got

\* the queries (by index) whose listing succeeded and held the identifier
ListedBy(id) ==
    {e.i : e \in {x \in Range(events) : x.op = "list" /\ x.answer = "ok" /\ id \in x.ids}}

\* the attempts to fetch the message
Fetches(id) == SelectSeq(events, LAMBDA e : e.op = "get" /\ e.id = id)

\* the number of EmailItems the sweep returned for the identifier
EmailItemsFor(id) ==
    Cardinality({k \in 1..Len(result) :
        result[k].gmail_link = <<"h","t","t","p","s",":","/","/","m","a","i","l",".","g","o","o","g","l","e",".","c","o","m","/","m","a","i","l","/","u","/","0","/","#","i","n","b","o","x","/">> \o id})

MailSweepReturned == pc = "returned" /\ \E e \in Range(events) : e.op = "list"

\* C1 as claimed: for every identifier returned by two different queries the
\* sweep emits exactly one EmailItem, also when fetching or parsing the message
\* fails the first time it is seen.
C1_ExactlyOnePerIdentifier ==
    MailSweepReturned =>
        \A id \in MessageIds :
            Cardinality(ListedBy(id)) >= 2 => EmailItemsFor(id) = 1

\* C1 as amended: for every identifier returned by two different queries the
\* sweep attempts the message at most once and emits at most one EmailItem:
\* one when that attempt succeeded, none when it failed (the identifier is
\* already in seen_ids and is skipped afterwards) or was never made.
C1_AtMostOnePerIdentifier ==
    MailSweepReturned =>
        \A id \in MessageIds :
            Cardinality(ListedBy(id)) >= 2 =>
                /\ Len(Fetches(id)) <= 1
                /\ EmailItemsFor(id) =
                      IF Fetches(id) # <<>> /\ Fetches(id)[1].answer = "ok" THEN 1 ELSE 0

\* C1 witnesses: an identifier listed by both queries, emitted once; and one
\* whose fetch failed in the first query, listed again and not emitted
C1_Witness ==
    /\ MailSweepReturned
    /\ \E id \in MessageIds :
          /\ ListedBy(id) = {1, 2}
          /\ Fetches(id) # <<>> /\ Fetches(id)[1].answer = "raise"
          /\ EmailItemsFor(id) = 0
    /\ \E id \in MessageIds :
          /\ ListedBy(id) = {1, 2}
          /\ EmailItemsFor(id) = 1

\* is the sweep of the feeds running or returned
InFeedSweep == pc = "rss_loop" \/ (pc = "returned" /\ \E e \in Range(events) : e.op = "source" /\ e.sweep = "rss")

\* the summary or description field of a feed entry, None when it has neither
SummaryField(entry) ==
    IF "summary" \in DOMAIN entry THEN Some(entry.summary)
    ELSE IF "description" \in DOMAIN entry THEN Some(entry.description)
    ELSE None

\* the lists of IntelligenceItems the program holds
StoredItemLists == {items_collected, web_items} \cup (IF pc \in {"rss_loop", "deep_loop"} THEN {items} ELSE {})

\* C10 as claimed: a feed entry without summary and description yields an
\* item with the empty summary; a summary longer than 500 characters is
\* stored cut to exactly 500 characters; no stored summary is longer than 500.
C10_SummaryCutTo500 ==
    /\ InFeedSweep =>
          \A k \in 1..Len(items) :
              /\ SummaryField(raw[k]) = None => items[k].summary = <<>>
              /\ (SummaryField(raw[k]) # None /\ Len(SummaryField(raw[k])[1]) > 500)
                    => Len(items[k].summary) = 500
    /\ \A l \in StoredItemLists : \A k \in 1..Len(l) : Len(l[k].summary) <= 500

\* C10 as amended: a feed entry without summary and description yields an
\* item with the empty summary; the stored summary is the text of the field
\* with its markup removed, cut to its first 500 characters when that text is
\* longer than 500 (so exactly 500 characters then, and fewer when only the
\* markup made the field longer than 500); no stored summary is longer than 500.
C10_StrippedSummaryCutTo500 ==
    /\ InFeedSweep =>
          \A k \in 1..Len(items) :
              /\ SummaryField(raw[k]) = None => items[k].summary = <<>>
              /\ SummaryField(raw[k]) # None =>
                    LET stripped == StripTags(SummaryField(raw[k])[1])
                    IN  IF Len(stripped) > 500
                        THEN /\ Len(items[k].summary) = 500
                             /\ items[k].summary = SubSeq(stripped, 1, 500)
                        ELSE items[k].summary = stripped
    /\ \A l \in StoredItemLists : \A k \in 1..Len(l) : Len(l[k].summary) <= 500

\* C10 witness: the feed sweep returned an item without summary field, an
\* item whose field of more than 500 characters was cut to 500, and an item
\* whose field of more than 500 characters was stored shorter than 500
C10_Witness ==
    /\ pc = "returned"
    /\ InFeedSweep
    /\ \E k \in 1..Len(items) :
          SummaryField(raw[k]) = None /\ items[k].summary = <<>>
    /\ \E k \in 1..Len(items) :
          /\ SummaryField(raw[k]) # None
          /\ Len(SummaryField(raw[k])[1]) > 500
          /\ Len(StripTags(SummaryField(raw[k])[1])) > 500
          /\ Len(items[k].summary) = 500
    /\ \E k \in 1..Len(items) :
          /\ SummaryField(raw[k]) # None
          /\ Len(SummaryField(raw[k])[1]) > 500
          /\ Len(items[k].summary) < 500
    /\ items_collected = items

-----------------------------------------------------------------------------
(* Claims about the items of one source                                    *)

\* C14: malformed content skips only the single offending item, never the
\* whole source: when one entry of a feed, one fragment of a page or one
\* message of a query result raises while being normalized, every other
\* entry, fragment or message of that source, earlier and later, still yields
\* its item; so every visit of a source gets as many items as the source has
\* well-formed entries.
C14_OnlyOffendingItemSkipped ==
    \A e \in Range(events) : e.op = "source" => e.got = e.due

\* the items held are EmailItems: a mailbox sweep is running or has returned
MailItemsHeld == pc = "mail_loop" \/ MailSweepReturned

\* the parts of a message
PartsOf(id) == Get(Mailbox(id).payload, "parts", <<>>)

\* the parts of a message (by position) that are attachments with the .pdf
\* extension and were obtained, when the downloads go as in po
Obtained(id, po) ==
    {k \in 1..Len(PartsOf(id)) :
        /\ "filename" \in DOMAIN PartsOf(id)[k]
        /\ EndsWith(PartsOf(id)[k].filename, <<".","p","d","f">>)
        /\ "attachmentId" \in DOMAIN PartsOf(id)[k].body
        /\ po.download[k] = "ok"}

\* is the text one of the diagnostic placeholders
IsPlaceholder(t) == StartsWith(t, <<"[","P","D","F"," ","e","x","t","r","a","c","t","i","o","n"," ">>)

\* can the item of message id be the one made when downloads and readings go
\* as in po
MadeUnder(item, id, po) ==
    LET scanned == ScanParts(PartsOf(id), 1,
                       [download |-> po.download, reading |-> po.reading,
                        pdf_available |-> env.pdf],
                       [attachments |-> <<>>, pdf_content |-> None])
    IN  /\ item.attachments = scanned.attachments
        /\ item.pdf_content = scanned.pdf_content

PagesScraped ==
    {e \in Range(events) : e.op = "source" /\ e.sweep = "deep" /\ ~ e.failed}

\* C16: for each scraped page only the first 10 matched fragments are
\* examined; a fragment with no title element yields no item and no error,
\* and every examined fragment with a title element yields exactly one item,
\* so a page contributes at most 10 items and exactly as many as there are
\* titled fragments among its first 10.
C16_PageItems ==
    /\ \A e \in PagesScraped : e.got = e.due /\ e.got <= 10
    /\ pc = "deep_loop" =>
          /\ Len(items) = Len(raw)
          /\ \A k \in 1..Len(raw) : "title" \in DOMAIN raw[k]

\* C16 witness: a sweep has scraped a page with more than 10 fragments, six of
\* them titled and five of these among the first 10, and a page with an
\* untitled fragment between titled ones
C16_Witness ==
    /\ pc = "returned"
    /\ \E e \in PagesScraped : e.got = 5
    /\ \E e \in PagesScraped : e.got = 2
    /\ Len(result) = 7

-----------------------------------------------------------------------------
(* JSON: the values, json.dumps and json.loads                             *)

\* Python values that json handles, each tagged with its type: a str holds
\* its characters, a list its elements, a dict its <<key, value>> pairs in
\* insertion order
PyStr(s)   == [t |-> "str",  v |-> s]
PyNull     == [t |-> "null", v |-> <<>>]
PyList(l)  == [t |-> "list", v |-> l]
PyDict(kv) == [t |-> "dict", v |-> kv]

\* d.get(key, default) and d[key] on a dict value
DictHas(d, key) == \E k \in 1..Len(d.v) : d.v[k][1] = key
DictGet(d, key, default) ==
    IF DictHas(d, key)
    THEN d.v[CHOOSE k \in 1..Len(d.v) : d.v[k][1] = key][2]
    ELSE default

\* d[key] = value
DictSet(d, key, value) ==
    IF DictHas(d, key)
    THEN PyDict([k \in 1..Len(d.v) |->
                    IF d.v[k][1] = key THEN <<key, value>> ELSE d.v[k]])
    ELSE PyDict(Append(d.v, <<key, value>>))

\* the text of a JSON document as the sequence of its tokens; the white
\* space that indent=2 puts between tokens is left out, the decoder skips it
Punct(c)    == [t |-> "punct", v |-> c]
StrToken(s) == [t |-> "string", v |-> s]
NullToken   == [t |-> "null", v |-> "null"]
IsPunct(tok, c) == tok.t = "punct" /\ tok.v = c

\* the body of a JSON string for a text: quote, backslash and newline escaped
RECURSIVE JsonEscape(_)
JsonEscape(s) ==
    LET special == {i \in 1..Len(s) : s[i] \in {"\"", "\\", "\n"}}
    IN  IF special = {} THEN s
        ELSE LET i == Min(special)
             IN  SubSeq(s, 1, i - 1)
                 \o <<"\\", IF s[i] = "\n" THEN "n" ELSE s[i]>>
                 \o JsonEscape(SubSeq(s, i + 1, Len(s)))

RECURSIVE JsonUnescape(_)
\* the text of a JSON string body; ok is FALSE for a body the decoder rejects
JsonUnescape(s) ==
    LET special == {i \in 1..Len(s) : s[i] \in {"\"", "\\", "\n"}}
    IN  IF special = {} THEN [ok |-> TRUE, text |-> s]
        ELSE LET i == Min(special)
             IN  IF s[i] # "\\" \/ i = Len(s) \/ s[i + 1] \notin {"\"", "\\", "n"}
                 THEN [ok |-> FALSE, text |-> <<>>]
                 ELSE LET rest == JsonUnescape(SubSeq(s, i + 2, Len(s)))
                      IN  [ok |-> rest.ok,
                           text |-> SubSeq(s, 1, i - 1)
                                    \o <<IF s[i + 1] = "n" THEN "\n" ELSE s[i + 1]>>
                                    \o rest.text]

RECURSIVE JoinTokens(_, _)
\* the token sequences of l from k on, with commas between
JoinTokens(l, k) ==
    IF k > Len(l) THEN <<>>
    ELSE IF k = Len(l) THEN l[k]
    ELSE l[k] \o <<Punct(",")>> \o JoinTokens(l, k + 1)

RECURSIVE json_dumps(_)
\* json.dumps(value, indent=2)
json_dumps(value) ==
    CASE value.t = "str"  -> <<StrToken(JsonEscape(value.v))>>
      [] value.t = "null" -> <<NullToken>>
      [] value.t = "list" ->
            <<Punct("[")>>
            \o JoinTokens([k \in 1..Len(value.v) |-> json_dumps(value.v[k])], 1)
            \o <<Punct("]")>>
      [] value.t = "dict" ->
            <<Punct("{")>>
            \o JoinTokens([k \in 1..Len(value.v) |->
                   <<StrToken(JsonEscape(value.v[k][1])), Punct(":")>>
                   \o json_dumps(value.v[k][2])], 1)
            \o <<Punct("}")>>

\* the decoder's answer: a value and the position after it, or a failure
Parsed(value, next) == [ok |-> TRUE, value |-> value, next |-> next]
ParseError == [ok |-> FALSE, value |-> PyNull, next |-> 0]

RECURSIVE ParseValue(_, _), ParseElements(_, _, _), ParseMembers(_, _, _)
\* the JSON value that starts at token p
ParseValue(toks, p) ==
    IF p > Len(toks) THEN ParseError
    ELSE LET tok == toks[p]
         IN  CASE tok.t = "string" ->
                    LET u == JsonUnescape(tok.v)
                    IN  IF u.ok THEN Parsed(PyStr(u.text), p + 1) ELSE ParseError
               [] tok.t = "null" -> Parsed(PyNull, p + 1)
               [] IsPunct(tok, "[") ->
                    IF p + 1 <= Len(toks) /\ IsPunct(toks[p + 1], "]")
                    THEN Parsed(PyList(<<>>), p + 2)
                    ELSE ParseElements(toks, p + 1, <<>>)
               [] IsPunct(tok, "{") ->
                    IF p + 1 <= Len(toks) /\ IsPunct(toks[p + 1], "}")
                    THEN Parsed(PyDict(<<>>), p + 2)
                    ELSE ParseMembers(toks, p + 1, PyDict(<<>>))
               [] OTHER -> ParseError

\* the elements of an array from token p on, after the elements in acc
ParseElements(toks, p, acc) ==
    LET e == ParseValue(toks, p)
    IN  IF ~ e.ok \/ e.next > Len(toks) THEN ParseError
        ELSE IF IsPunct(toks[e.next], "]")
        THEN Parsed(PyList(Append(acc, e.value)), e.next + 1)
        ELSE IF IsPunct(toks[e.next], ",")
        THEN ParseElements(toks, e.next + 1, Append(acc, e.value))
        ELSE ParseError

\* the members of an object from token p on, after the members in acc
ParseMembers(toks, p, acc) ==
    IF p + 1 > Len(toks) \/ toks[p].t # "string" \/ ~ IsPunct(toks[p + 1], ":")
    THEN ParseError
    ELSE LET key == JsonUnescape(toks[p].v)
             e   == ParseValue(toks, p + 2)
         IN  IF ~ key.ok \/ ~ e.ok \/ e.next > Len(toks) THEN ParseError
             ELSE IF IsPunct(toks[e.next], "}")
             THEN Parsed(DictSet(acc, key.text, e.value), e.next + 1)
             ELSE IF IsPunct(toks[e.next], ",")
             THEN ParseMembers(toks, e.next + 1, DictSet(acc, key.text, e.value))
             ELSE ParseError

\* json.loads(doc): the value, or a failure (JSONDecodeError) when the text
\* is not one JSON value
json_loads(doc) ==
    LET e == ParseValue(doc, 1)
    IN  IF e.ok /\ e.next = Len(doc) + 1 THEN e ELSE ParseError

-----------------------------------------------------------------------------
(* SynthesisCore                                                           *)

EXCERPT_CHARS == 1000
SECTION_ITEMS == 10
WHITE_PAPER_ITEMS == 5
SNIPPET_CHARS == 150
SENDER_CHARS == 30

\* the names of categories and metric types as text
NameChars(name) ==
    CASE name = "breakthrough"         -> <<"b","r","e","a","k","t","h","r","o","u","g","h">>
      [] name = "use_case"             -> <<"u","s","e","_","c","a","s","e">>
      [] name = "customer_improvement" -> <<"c","u","s","t","o","m","e","r","_","i","m","p","r","o","v","e","m","e","n","t">>
      [] name = "white_paper"          -> <<"w","h","i","t","e","_","p","a","p","e","r">>
      [] name = "general"              -> <<"g","e","n","e","r","a","l">>
      [] name = "percentage"           -> <<"p","e","r","c","e","n","t","a","g","e">>
      [] name = "multiplier"           -> <<"m","u","l","t","i","p","l","i","e","r">>
      [] name = "time_savings"         -> <<"t","i","m","e","_","s","a","v","i","n","g","s">>
      [] name = "cost_savings"         -> <<"c","o","s","t","_","s","a","v","i","n","g","s">>

\* one metric dict of an item
MetricDict(m) ==
    PyDict(<< <<<<"t","y","p","e">>, PyStr(NameChars(m.type))>>,
              <<<<"v","a","l","u","e">>, PyStr(m.value)>>,
              <<<<"c","o","n","t","e","x","t">>, PyStr(m.context)>> >>)

\* the entry of one web item in prepare_intelligence_data
WebEntry(item) ==
    PyDict(<< <<<<"t","i","t","l","e">>, PyStr(item.title)>>,
              <<<<"s","o","u","r","c","e">>, PyStr(item.source)>>,
              <<<<"s","u","m","m","a","r","y">>, PyStr(Take(item.summary, SUMMARY_CHARS))>>,
              <<<<"c","a","t","e","g","o","r","y">>, PyStr(NameChars(item.category))>>,
              <<<<"m","e","t","r","i","c","s">>, PyList([k \in 1..Len(item.metrics) |->
                                      MetricDict(item.metrics[k])])>>,
              <<<<"l","i","n","k">>, PyStr(item.link)>> >>)

\* the excerpt without its cut
PdfExcerpt_uncut(pdf_content) ==
    IF pdf_content = None \/ pdf_content[1] = <<>> THEN PyNull
    ELSE PyStr(pdf_content[1])

\* item.pdf_content[:1000] if item.pdf_content else None
PdfExcerpt(pdf_content) ==
    IF pdf_content = None \/ pdf_content[1] = <<>> THEN PyNull
    ELSE PyStr(Take(pdf_content[1], EXCERPT_CHARS))

\* the entry of one email item in prepare_intelligence_data
EmailEntry(item) ==
    PyDict(<< <<<<"s","u","b","j","e","c","t">>, PyStr(item.subject)>>,
              <<<<"s","e","n","d","e","r">>, PyStr(item.sender)>>,
              <<<<"s","n","i","p","p","e","t">>, PyStr(item.snippet)>>,
              <<<<"a","t","t","a","c","h","m","e","n","t","s">>, PyList([k \in 1..Len(item.attachments) |->
                                          PyStr(item.attachments[k])])>>,
              <<<<"p","d","f","_","e","x","c","e","r","p","t">>, PdfExcerpt(item.pdf_content)>> >>)

\* the dict that prepare_intelligence_data builds
IntelligenceData(web, email) ==
    PyDict(<< <<<<"w","e","b","_","i","n","t","e","l","l","i","g","e","n","c","e">>,
                PyList([k \in 1..Len(web) |-> WebEntry(web[k])])>>,
              <<<<"e","m","a","i","l","_","i","n","t","e","l","l","i","g","e","n","c","e">>,
                PyList([k \in 1..Len(email) |-> EmailEntry(email[k])])>> >>)

\* SynthesisCore.prepare_intelligence_data
prepare_intelligence_data(web, email) == json_dumps(IntelligenceData(web, email))

RECURSIVE PyReprBody(_, _)
\* the text between the quotes q of repr(s): backslash, newline and the
\* quote escaped
PyReprBody(s, q) ==
    LET special == {i \in 1..Len(s) : s[i] \in {"\\", "\n", q}}
    IN  IF special = {} THEN s
        ELSE LET i == Min(special)
             IN  SubSeq(s, 1, i - 1)
                 \o <<"\\", IF s[i] = "\n" THEN "n" ELSE s[i]>>
                 \o PyReprBody(SubSeq(s, i + 1, Len(s)), q)

\* repr(s) of a str: in double quotes when s holds a single quote and no
\* double quote, else in single quotes
PyReprStr(s) ==
    LET q == IF "'" \in Range(s) /\ "\"" \notin Range(s) THEN "\"" ELSE "'"
    IN  <<q>> \o PyReprBody(s, q) \o <<q>>

RECURSIVE JoinText(_, _, _)
\* sep.join(l[k:])
JoinText(l, k, sep) ==
    IF k > Len(l) THEN <<>>
    ELSE IF k = Len(l) THEN l[k]
    ELSE l[k] \o sep \o JoinText(l, k + 1, sep)

RECURSIVE PyRepr(_)
\* repr(value)
PyRepr(value) ==
    CASE value.t = "str"  -> PyReprStr(value.v)
      [] value.t = "null" -> <<"N","o","n","e">>
      [] value.t = "list" ->
            <<"[">> \o JoinText([k \in 1..Len(value.v) |-> PyRepr(value.v[k])], 1, <<","," ">>)
            \o <<"]">>
      [] value.t = "dict" ->
            <<"{">>
            \o JoinText([k \in 1..Len(value.v) |->
                   PyReprStr(value.v[k][1]) \o <<":"," ">> \o PyRepr(value.v[k][2])], 1, <<","," ">>)
            \o <<"}">>

\* str(value), what an f-string puts for {value}
PyFormat(value) == IF value.t = "str" THEN value.v ELSE PyRepr(value)

\* bool(value)
Truthy(value) == value.t # "null" /\ value.v # <<>>

\* datetime.now().strftime("%Y-%m-%d %H:%M") and strftime("%Y-%m-%d"), the
\* clock counting seconds
StrfMinute(now) == <<"m","i","n","u","t","e"," ">> \o Str(now \div 60)
StrfDate(now)   == <<"d","a","y"," ">> \o Str(now \div 86400)

\* what the except clause of fallback_synthesize puts for the data
EmptyData ==
    PyDict(<< <<<<"w","e","b","_","i","n","t","e","l","l","i","g","e","n","c","e">>, PyList(<<>>)>>,
              <<<<"e","m","a","i","l","_","i","n","t","e","l","l","i","g","e","n","c","e">>, PyList(<<>>)>> >>)

\* the except clause re-raising in place of substituting
LoadData_reraise(doc) ==
    IF json_loads(doc).ok THEN Some(json_loads(doc).value) ELSE None

\* the try statement of fallback_synthesize: the parsed document, or the
\* empty data when json.loads raises; None would be an exception passed on
LoadData(doc) ==
    IF json_loads(doc).ok THEN Some(json_loads(doc).value) ELSE Some(EmptyData)

\* the bucket cut to what its section shows
Bucket_shown_only(web, cat) ==
    Take(SelectSeq(web, LAMBDA i : /\ DictGet(i, <<"c","a","t","e","g","o","r","y">>, PyNull).t = "str"
                                   /\ DictGet(i, <<"c","a","t","e","g","o","r","y">>, PyNull).v = NameChars(cat)),
         SECTION_ITEMS)

\* the bucket with its latest item first
Bucket_latest_first(web, cat) ==
    LET b == SelectSeq(web, LAMBDA i : /\ DictGet(i, <<"c","a","t","e","g","o","r","y">>, PyNull).t = "str"
                                       /\ DictGet(i, <<"c","a","t","e","g","o","r","y">>, PyNull).v = NameChars(cat))
    IN  [k \in 1..Len(b) |-> b[Len(b) + 1 - k]]

\* [i for i in web_items if i.get("category") == cat]
Bucket(web, cat) ==
    SelectSeq(web, LAMBDA i : /\ DictGet(i, <<"c","a","t","e","g","o","r","y">>, PyNull).t = "str"
                              /\ DictGet(i, <<"c","a","t","e","g","o","r","y">>, PyNull).v = NameChars(cat))

\* the lines the Breakthroughs section has for one item
BreakthroughLines(item) ==
    << <<"-"," ","*","*">> \o PyFormat(DictGet(item, <<"t","i","t","l","e">>, PyNull)) \o <<"*","*"," ","(">>
       \o PyFormat(DictGet(item, <<"s","o","u","r","c","e">>, PyNull)) \o <<")">> >>
    \o (IF Truthy(DictGet(item, <<"m","e","t","r","i","c","s">>, PyNull))
        THEN << <<" "," ","-"," ","M","e","t","r","i","c","s",":"," ">> \o PyFormat(DictGet(item, <<"m","e","t","r","i","c","s">>, PyNull)) >>
        ELSE <<>>)

\* the lines the Customer Improvements section has for one item
CustomerLines(item) ==
    << <<"-"," ","*","*">> \o PyFormat(DictGet(item, <<"t","i","t","l","e">>, PyNull)) \o <<"*","*"," ","(">>
       \o PyFormat(DictGet(item, <<"s","o","u","r","c","e">>, PyNull)) \o <<")">>,
       <<" "," ","-"," ">> \o Take(DictGet(item, <<"s","u","m","m","a","r","y">>, PyNull).v, SNIPPET_CHARS) \o <<".",".",".">> >>

\* the line the Use Cases section has for one item
UseCaseLines(item) ==
    << <<"-"," ","[">> \o PyFormat(DictGet(item, <<"t","i","t","l","e">>, PyNull)) \o <<"]","(">>
       \o PyFormat(DictGet(item, <<"l","i","n","k">>, PyNull)) \o <<")">> >>

\* the line the White Papers section has for one web item
WhitePaperLines(item) ==
    << <<"-"," ","*","*">> \o PyFormat(DictGet(item, <<"t","i","t","l","e">>, PyNull)) \o <<"*","*">> >>

\* the lines the White Papers section has for one email item
EmailLines(item) ==
    << <<"-"," ","*","*">> \o PyFormat(DictGet(item, <<"s","u","b","j","e","c","t">>, PyNull)) \o <<"*","*"," ","(","f","r","o","m",":"," ">>
       \o Take(DictGet(item, <<"s","e","n","d","e","r">>, PyNull).v, SENDER_CHARS) \o <<")">> >>
    \o (IF Truthy(DictGet(item, <<"a","t","t","a","c","h","m","e","n","t","s">>, PyNull))
        THEN << <<" "," ","-"," ","A","t","t","a","c","h","m","e","n","t","s",":"," ">>
                \o JoinText([k \in 1..Len(DictGet(item, <<"a","t","t","a","c","h","m","e","n","t","s">>, PyNull).v) |->
                                DictGet(item, <<"a","t","t","a","c","h","m","e","n","t","s">>, PyNull).v[k].v], 1, <<","," ">>) >>
        ELSE <<>>)

\* has the data the shape the code reads without raising: an object whose
\* two lists, where present, are lists of objects
Readable(data) ==
    /\ data.t = "dict"
    /\ \A key \in {<<"w","e","b","_","i","n","t","e","l","l","i","g","e","n","c","e">>, <<"e","m","a","i","l","_","i","n","t","e","l","l","i","g","e","n","c","e">>} :
          /\ DictGet(data, key, PyList(<<>>)).t = "list"
          /\ \A k \in 1..Len(DictGet(data, key, PyList(<<>>)).v) :
                DictGet(data, key, PyList(<<>>)).v[k].t = "dict"

\* the report fallback_synthesize builds from the loaded data, as the
\* sequence of its lines
FallbackReport(data, now) ==
    LET web_its       == DictGet(data, <<"w","e","b","_","i","n","t","e","l","l","i","g","e","n","c","e">>, PyList(<<>>)).v
        email_its     == DictGet(data, <<"e","m","a","i","l","_","i","n","t","e","l","l","i","g","e","n","c","e">>, PyList(<<>>)).v
        breakthroughs  == Bucket(web_its, "breakthrough")
        use_cases      == Bucket(web_its, "use_case")
        customer_items == Bucket(web_its, "customer_improvement")
        white_papers   == Bucket(web_its, "white_paper")
    IN  << <<"#"," ","S","e","n","t","i","n","e","l"," ","I","n","t","e","l","l","i","g","e","n","c","e"," ","R","e","p","o","r","t">>,
           <<"*","*","D","a","t","e","*","*",":"," ">> \o StrfMinute(now),
           <<"*","*","I","t","e","m","s"," ","A","n","a","l","y","z","e","d","*","*",":"," ">> \o Str(Len(web_its) + Len(email_its)),
           <<"*","*","M","o","d","e","*","*",":"," ","R","u","l","e","-","B","a","s","e","d"," ","F","a","l","l","b","a","c","k"," ","(","A","I"," ","u","n","a","v","a","i","l","a","b","l","e",")">>,
           <<>>,
           <<"#","#"," ","E","x","e","c","u","t","i","v","e"," ","S","u","m","m","a","r","y">>,
           <<"P","r","o","c","e","s","s","e","d"," ">> \o Str(Len(web_its)) \o <<" ","w","e","b"," ","i","n","t","e","l","l","i","g","e","n","c","e"," ","i","t","e","m","s"," ","a","n","d"," ">>
               \o Str(Len(email_its)) \o <<" ","e","m","a","i","l"," ","i","t","e","m","s","."," ">>,
           <<"T","h","i","s"," ","r","e","p","o","r","t"," ","w","a","s"," ","g","e","n","e","r","a","t","e","d"," ","u","s","i","n","g"," ","k","e","y","w","o","r","d","-","b","a","s","e","d"," ","c","a","t","e","g","o","r","i","z","a","t","i","o","n",".">>,
           <<>>,
           <<"#","#"," ","B","r","e","a","k","t","h","r","o","u","g","h","s"," ","(">> \o Str(Len(breakthroughs)) \o <<" ","i","t","e","m","s",")">> >>
        \o Concat([k \in DOMAIN Take(breakthroughs, SECTION_ITEMS) |-> BreakthroughLines(breakthroughs[k])])
        \o << <<>>,
              <<"#","#"," ","C","u","s","t","o","m","e","r"," ","I","m","p","r","o","v","e","m","e","n","t","s"," ","(">> \o Str(Len(customer_items)) \o <<" ","i","t","e","m","s",")">> >>
        \o Concat([k \in DOMAIN Take(customer_items, SECTION_ITEMS) |-> CustomerLines(customer_items[k])])
        \o << <<>>,
              <<"#","#"," ","U","s","e"," ","C","a","s","e","s"," ","(">> \o Str(Len(use_cases)) \o <<" ","i","t","e","m","s",")">> >>
        \o Concat([k \in DOMAIN Take(use_cases, SECTION_ITEMS) |-> UseCaseLines(use_cases[k])])
        \o << <<>>,
              <<"#","#"," ","W","h","i","t","e"," ","P","a","p","e","r","s"," ","(">> \o Str(Len(white_papers) + Len(email_its)) \o <<" ","i","t","e","m","s",")">> >>
        \o Concat([k \in DOMAIN Take(white_papers, WHITE_PAPER_ITEMS) |-> WhitePaperLines(white_papers[k])])
        \o Concat([k \in DOMAIN Take(email_its, WHITE_PAPER_ITEMS) |-> EmailLines(email_its[k])])
        \o << <<>>,
              <<"#","#"," ","R","a","w"," ","S","i","g","n","a","l"," ","C","o","u","n","t">>,
              <<"-"," ","T","o","t","a","l"," ","w","e","b"," ","i","t","e","m","s",":"," ">> \o Str(Len(web_its)),
              <<"-"," ","T","o","t","a","l"," ","e","m","a","i","l"," ","i","t","e","m","s",":"," ">> \o Str(Len(email_its)),
              <<"-"," ","B","r","e","a","k","t","h","r","o","u","g","h","s",":"," ">> \o Str(Len(breakthroughs)),
              <<"-"," ","C","u","s","t","o","m","e","r"," ","I","m","p","r","o","v","e","m","e","n","t","s",":"," ">> \o Str(Len(customer_items)),
              <<"-"," ","U","s","e"," ","C","a","s","e","s",":"," ">> \o Str(Len(use_cases)),
              <<"-"," ","W","h","i","t","e"," ","P","a","p","e","r","s",":"," ">> \o Str(Len(white_papers)) >>

\* SynthesisCore.fallback_synthesize at clock time now: the report, or None
\* when an exception leaves the function
fallback_synthesize(doc, now) ==
    IF LoadData(doc) = None THEN None
    ELSE IF ~ Readable(LoadData(doc)[1]) THEN None
    ELSE Some(FallbackReport(LoadData(doc)[1], now))

\* SynthesisCore.__init__: the model, None without the library or the key
NewModel(e) == IF e.gemini /\ e.api_key THEN Some("gemini") ELSE None

\* what the summarizer can answer to generate_content: an exception, or a
\* response whose text is None, empty, or a report
LlmReports == { << <<"#"," ","A","I"," ","r","e","p","o","r","t">> >>, << <<"#"," ","A","I"," ","r","e","p","o","r","t">>, <<>>, <<"N","o"," ","s","i","g","n","a","l","s",".">> >> }
LlmAnswers ==
    {[kind |-> "raise"], [kind |-> "ok", text |-> None], [kind |-> "ok", text |-> Some(<<>>)]}
    \cup {[kind |-> "ok", text |-> Some(r)] : r \in LlmReports}

\* the except clause of synthesize_with_gemini passing the exception on
synthesize_with_gemini_no_handler(mdl, o, doc, now) ==
    IF mdl = None THEN fallback_synthesize(doc, now)
    ELSE IF o.kind = "raise" THEN None
    ELSE IF o.text # None /\ o.text[1] # <<>> THEN o.text
    ELSE fallback_synthesize(doc, now)

\* SynthesisCore.synthesize_with_gemini(doc) on a core with model mdl, the
\* summarizer answering o when called, at clock time now: the report, or
\* None when an exception leaves the function
synthesize_with_gemini(mdl, o, doc, now) ==
    IF mdl = None THEN fallback_synthesize(doc, now)
    ELSE IF o.kind = "raise" THEN fallback_synthesize(doc, now)
    ELSE IF o.text # None /\ o.text[1] # <<>> THEN o.text
    ELSE fallback_synthesize(doc, now)

\* `return value`, or the exception when there is no value
ReturnOrRaise(value) ==
    IF value = None THEN Uncaught ELSE Return(value[1])

\* SynthesisCore.run, up to the call of synthesize_with_gemini
SynthesisRun ==
    /\ pc = "synthesis_run"
    /\ intelligence_data' = prepare_intelligence_data(web_items, email_items)
    /\ pc' = "synthesize_with_gemini"
    /\ stack' = <<"save_report">> \o stack
    /\ UNCHANGED <<result, model, report, output_file>>
    /\ UNCHANGED <<textVars, envVars, wtVars, mailVars, mainVars, histVars>>

\* a call of synthesize_with_gemini(intelligence_data)
SynthesizeWithGemini ==
    /\ pc = "synthesize_with_gemini"
    /\ \E o \in LlmAnswers :
          /\ ReturnOrRaise(synthesize_with_gemini(model, o, intelligence_data, clock))
          /\ events' = Append(events,
                 IF model = None
                 THEN [op |-> "synthesize", at |-> clock, called |-> FALSE]
                 ELSE [op |-> "synthesize", at |-> clock, called |-> TRUE,
                       answer |-> o])
    /\ UNCHANGED <<synVars, raw>>
    /\ UNCHANGED <<textVars, envVars, wtVars, mailVars, mainVars>>

\* a call of fallback_synthesize(intelligence_data) by itself
FallbackSynthesize ==
    /\ pc = "fallback_synthesize"
    /\ ReturnOrRaise(fallback_synthesize(intelligence_data, clock))
    /\ events' = Append(events, [op |-> "fallback", at |-> clock])
    /\ UNCHANGED <<synVars, raw>>
    /\ UNCHANGED <<textVars, envVars, wtVars, mailVars, mainVars>>

\* SynthesisCore.run from `filepath = self.save_report(report)` on: the file
\* written, and `return report`
SaveReport ==
    /\ pc = "save_report"
    /\ report' = result
    /\ output_file' = Some([path |-> <<".","/","o","u","t","p","u","t","/","S","e","n","t","i","n","e","l","_","R","e","p","o","r","t","_">> \o StrfDate(clock) \o <<".","m","d">>,
                            content |-> result])
    /\ Return(result)
    /\ UNCHANGED <<model, intelligence_data>>
    /\ UNCHANGED <<textVars, envVars, wtVars, mailVars, mainVars, histVars>>

\* the instants at which the clock is looked at, in seconds: two in one
\* minute, one in the next minute, one on the next day
Instants == {0, 59, 60, 86400}

\* time passing between two steps of the program
Tick ==
    /\ \E t \in Instants : t > clock /\ clock' = t
    /\ UNCHANGED env
    /\ UNCHANGED <<textVars, ctlVars, wtVars, mailVars, mainVars, synVars, histVars>>

-----------------------------------------------------------------------------
(* Inputs of SynthesisCore: item lists as the sweeps produce them          *)

\* a feed entry that the categorizer puts into category c
SampleEntry(c, k) ==
    CASE c = "breakthrough" ->
           [title |-> <<"T","h","e"," ","\"","b","i","g","\""," ","b","r","e","a","k","t","h","r","o","u","g","h"," ">> \o Str(k), link |-> <<"h","t","t","p",":","/","/","x","/","b">> \o Str(k),
            summary |-> <<"<","p",">","I","t","'","s"," ","4","0","%"," ","f","a","s","t","e","r","<","/","p",">">>]
      [] c = "customer_improvement" ->
           [title |-> <<"C","u","s","t","o","m","e","r"," ","w","i","n"," ">> \o Str(k), link |-> <<"h","t","t","p",":","/","/","x","/","c">> \o Str(k),
            summary |-> <<"W","e"," ","s","a","v","e","d"," ","3"," ","h","o","u","r","s">>]
      [] c = "use_case" ->
           [title |-> <<"T","u","t","o","r","i","a","l"," ">> \o Str(k), link |-> <<"h","t","t","p",":","/","/","x","/","u">> \o Str(k)]
      [] c = "white_paper" ->
           [title |-> <<"a","r","X","i","v"," ","p","r","e","p","r","i","n","t"," ">> \o Str(k), summary |-> <<"A"," ","t","e","c","h","n","i","c","a","l"," ","r","e","p","o","r","t">>]
      [] c = "general" ->
           [title |-> <<"W","e","e","k","l","y"," ","n","o","t","e","s"," ">> \o Str(k), link |-> <<"h","t","t","p",":","/","/","x","/","g">> \o Str(k),
            summary |-> <<"N","o","t","h","i","n","g"," ","n","e","w">>]

SampleCategories ==
    <<"breakthrough", "customer_improvement", "use_case", "white_paper", "general">>

\* how many items of each of SampleCategories a web list has: none, the
\* example of three breakthroughs and one use case, one bucket or every bucket
\* above its display cap, one of each
Mixes == { <<0, 0, 0, 0, 0>>, <<3, 0, 1, 0, 0>>, <<1, 1, 1, 1, 1>>,
           <<11, 0, 0, 0, 0>>, <<0, 11, 0, 0, 1>>, <<0, 0, 11, 0, 0>>,
           <<0, 0, 0, 6, 0>>, <<11, 11, 11, 6, 2>> }

EmailCounts == {0, 2, 6}

\* the web list of a mix: the k-th items of the categories, then the k+1-th
SampleWeb(mix) ==
    Concat([k \in 1..11 |->
        Concat([j \in 1..5 |->
            IF k <= mix[j]
            THEN <<FeedItem(SampleEntry(SampleCategories[j], k), <<"F","e","e","d">>, 0)>>
            ELSE <<>>])])

\* the k-th message of a mailbox, like those of Mailbox
SampleEmail(k) ==
    LET id   == <<"m", Str(((k - 1) % 3) + 1)[1]>>
        item == EmailItem(id, Mailbox(id),
                    [download |-> <<"ok", "ok", "ok">>, reading |-> <<"ok", "ok", "ok">>,
                     pdf_available |-> TRUE], 0)
    IN  [item EXCEPT !.subject = @ \o <<" ">> \o Str(k),
                     !.gmail_link = @ \o Str(k)]

SampleEmails(n) == [k \in 1..n |-> SampleEmail(k)]

\* an IntelligenceItem built by a caller of SynthesisCore.run with a summary
\* longer than the Watchtower ever stores
LongSummaryItem ==
    IntelligenceItem(<<"L","o","n","g"," ","r","e","a","d">>, <<"H","a","n","d"," ","m","a","d","e">>, <<"h","t","t","p",":","/","/","x","/","l">>, LongPlain, IsoFormat(0),
                     "general", <<>>)

\* the web lists handed to SynthesisCore
SampleWebLists == {SampleWeb(mix) : mix \in Mixes} \cup {<<LongSummaryItem>>}

\* an EmailIntelligence whose extracted text is longer than the excerpt of
\* the exchange document (extract_pdf_text returns up to PDF_CHARS characters)
LongTextEmail ==
    [SampleEmail(1) EXCEPT !.pdf_content = Some(LongPlain \o LongPlain)]

\* the email lists handed to SynthesisCore
SampleEmailLists ==
    {SampleEmails(n) : n \in EmailCounts} \cup {<<LongTextEmail, SampleEmail(3)>>}

\* texts that json.loads rejects: the empty text, an object cut off, a
\* member without an object around it, a trailing comma, a bad escape
Unparseable ==
    { <<>>,
      <<Punct("{")>>,
      <<StrToken(<<"w","e","b","_","i","n","t","e","l","l","i","g","e","n","c","e">>), Punct(":"), Punct("["), Punct("]")>>,
      <<Punct("{"), StrToken(<<"w","e","b","_","i","n","t","e","l","l","i","g","e","n","c","e">>), Punct(":"), Punct("["), Punct("]"), Punct(",")>>,
      <<Punct("{"), StrToken(<<"b","a","d"," ","\\","e","s","c","a","p","e">>), Punct(":"), NullToken, Punct("}")>> }

-----------------------------------------------------------------------------
(* Claims about SynthesisCore                                              *)

\* did the summarizer give the report of a call of synthesize_with_gemini
Served(e) ==
    /\ e.op = "synthesize"
    /\ e.called
    /\ e.answer.kind = "ok"
    /\ e.answer.text # None
    /\ e.answer.text[1] # <<>>

\* the last call was one of synthesize_with_gemini
SynthesizeCalled == events # <<>> /\ events[Len(events)].op = "synthesize"

\* the last call was one of fallback_synthesize, by itself or from
\* synthesize_with_gemini
FallbackCalled ==
    /\ events # <<>>
    /\ \/ events[Len(events)].op = "fallback"
       \/ events[Len(events)].op = "synthesize" /\ ~ Served(events[Len(events)])

\* the clock at the last call
CalledAt == events[Len(events)].at

\* C4: synthesize_with_gemini returns the summarizer's text only when a model
\* is configured, the call does not raise and the response text is not
\* empty; when the model is absent, the call raises or the response is empty
\* (or has no text), the returned report is exactly the result of
\* fallback_synthesize on the same exchange document, and no exception
\* leaves synthesize_with_gemini.
C4_FailuresRouteToFallback ==
    SynthesizeCalled =>
        LET e == events[Len(events)]
        IN  /\ pc # "uncaught_exception"
            /\ e.called <=> model # None
            /\ Served(e) => result = e.answer.text[1]
            /\ ~ Served(e) =>
                  /\ fallback_synthesize(intelligence_data, e.at) # None
                  /\ result = fallback_synthesize(intelligence_data, e.at)[1]

\* C4 witness: the summarizer raised on a document with items and the
\* fallback report came back
C4_Witness ==
    /\ SynthesizeCalled
    /\ pc = "save_report"
    /\ web_items # <<>>
    /\ events[Len(events)].called
    /\ events[Len(events)].answer.kind = "raise"
    /\ result = FallbackReport(IntelligenceData(web_items, email_items), CalledAt)

\* the number of web items of a category
CountOf(c) == Cardinality({k \in 1..Len(web_items) : web_items[k].category = c})

\* the lines of a report after its line `## Raw Signal Count`
RawSignalCount(rep) ==
    LET at == {k \in 1..Len(rep) : rep[k] = <<"#","#"," ","R","a","w"," ","S","i","g","n","a","l"," ","C","o","u","n","t">>}
    IN  IF at = {} THEN <<>> ELSE SubSeq(rep, Min(at) + 1, Len(rep))

\* the Raw Signal Count lines for the numbers of web items, email items,
\* breakthroughs, customer improvements, use cases, white papers
CountLines(w, e, b, c, u, p) ==
    << <<"-"," ","T","o","t","a","l"," ","w","e","b"," ","i","t","e","m","s",":"," ">> \o Str(w),
       <<"-"," ","T","o","t","a","l"," ","e","m","a","i","l"," ","i","t","e","m","s",":"," ">> \o Str(e),
       <<"-"," ","B","r","e","a","k","t","h","r","o","u","g","h","s",":"," ">> \o Str(b),
       <<"-"," ","C","u","s","t","o","m","e","r"," ","I","m","p","r","o","v","e","m","e","n","t","s",":"," ">> \o Str(c),
       <<"-"," ","U","s","e"," ","C","a","s","e","s",":"," ">> \o Str(u),
       <<"-"," ","W","h","i","t","e"," ","P","a","p","e","r","s",":"," ">> \o Str(p) >>

\* the document in hand is the exchange document of the item lists in hand
DocOfItems == json_loads(intelligence_data).ok

\* C8: for every exchange document, the Raw Signal Count section of the
\* fallback report states the true number of web items, of email items and
\* of the items of each of the categories breakthrough, customer_improvement,
\* use_case and white_paper, also when a bucket holds more items than its
\* section shows.
C8_ExactCounts ==
    (FallbackCalled /\ DocOfItems) =>
        /\ pc # "uncaught_exception"
        /\ RawSignalCount(result) =
              CountLines(Len(web_items), Len(email_items),
                         CountOf("breakthrough"), CountOf("customer_improvement"),
                         CountOf("use_case"), CountOf("white_paper"))

\* C8 witness: a fallback report for more breakthroughs than the section
\* shows and more email items than the White Papers section shows
C8_Witness ==
    /\ FallbackCalled /\ DocOfItems
    /\ CountOf("breakthrough") > SECTION_ITEMS
    /\ CountOf("white_paper") > WHITE_PAPER_ITEMS
    /\ Len(email_items) > WHITE_PAPER_ITEMS
    /\ RawSignalCount(result)[3] = <<"-"," ","B","r","e","a","k","t","h","r","o","u","g","h","s",":"," ","1","1">>
    /\ RawSignalCount(result)[2] = <<"-"," ","T","o","t","a","l"," ","e","m","a","i","l"," ","i","t","e","m","s",":"," ","6">>

\* C9: given an exchange document that fails to parse, fallback_synthesize
\* does not fail: it returns a report that has all the fixed section
\* headers (Executive Summary, Breakthroughs, Customer Improvements, Use
\* Cases, White Papers, Raw Signal Count), lists no item, and has every count
\* equal to zero.
C9_UnparseableGivesZeroReport ==
    (FallbackCalled /\ ~ json_loads(intelligence_data).ok) =>
        /\ pc # "uncaught_exception"
        /\ result =
              << <<"#"," ","S","e","n","t","i","n","e","l"," ","I","n","t","e","l","l","i","g","e","n","c","e"," ","R","e","p","o","r","t">>,
                 <<"*","*","D","a","t","e","*","*",":"," ">> \o StrfMinute(CalledAt),
                 <<"*","*","I","t","e","m","s"," ","A","n","a","l","y","z","e","d","*","*",":"," ","0">>,
                 <<"*","*","M","o","d","e","*","*",":"," ","R","u","l","e","-","B","a","s","e","d"," ","F","a","l","l","b","a","c","k"," ","(","A","I"," ","u","n","a","v","a","i","l","a","b","l","e",")">>,
                 <<>>,
                 <<"#","#"," ","E","x","e","c","u","t","i","v","e"," ","S","u","m","m","a","r","y">>,
                 <<"P","r","o","c","e","s","s","e","d"," ","0"," ","w","e","b"," ","i","n","t","e","l","l","i","g","e","n","c","e"," ","i","t","e","m","s"," ","a","n","d"," ","0"," ","e","m","a","i","l"," ","i","t","e","m","s","."," ">>,
                 <<"T","h","i","s"," ","r","e","p","o","r","t"," ","w","a","s"," ","g","e","n","e","r","a","t","e","d"," ","u","s","i","n","g"," ","k","e","y","w","o","r","d","-","b","a","s","e","d"," ","c","a","t","e","g","o","r","i","z","a","t","i","o","n",".">>,
                 <<>>,
                 <<"#","#"," ","B","r","e","a","k","t","h","r","o","u","g","h","s"," ","(","0"," ","i","t","e","m","s",")">>,
                 <<>>,
                 <<"#","#"," ","C","u","s","t","o","m","e","r"," ","I","m","p","r","o","v","e","m","e","n","t","s"," ","(","0"," ","i","t","e","m","s",")">>,
                 <<>>,
                 <<"#","#"," ","U","s","e"," ","C","a","s","e","s"," ","(","0"," ","i","t","e","m","s",")">>,
                 <<>>,
                 <<"#","#"," ","W","h","i","t","e"," ","P","a","p","e","r","s"," ","(","0"," ","i","t","e","m","s",")">>,
                 <<>>,
                 <<"#","#"," ","R","a","w"," ","S","i","g","n","a","l"," ","C","o","u","n","t">> >>
              \o CountLines(0, 0, 0, 0, 0, 0)

\* C9 witness: fallback_synthesize returned a report for an object cut off
C9_Witness ==
    /\ FallbackCalled
    /\ events[Len(events)].op = "fallback"
    /\ pc = "returned"
    /\ intelligence_data = <<Punct("{")>>
    /\ Len(result) = 24

-----------------------------------------------------------------------------
(* Watchtower.run and main                                                 *)

\* Watchtower.run: self.fetch_rss_intelligence()
WatchtowerRun ==
    /\ pc = "watchtower_run"
    /\ pc' = "fetch_rss_intelligence"
    /\ stack' = <<"watchtower_run_deep">> \o stack
    /\ UNCHANGED result
    /\ UNCHANGED <<textVars, envVars, wtVars, mailVars, mainVars, synVars, histVars>>

\* Watchtower.run: `if include_deep_web: self.fetch_deep_web_intelligence()`,
\* main passing include_deep_web = not args.no_deep_web
WatchtowerRunDeep ==
    /\ pc = "watchtower_run_deep"
    /\ IF ~ args.no_deep_web
       THEN /\ pc' = "fetch_deep_web_intelligence"
            /\ stack' = <<"watchtower_run_return">> \o stack
            /\ events' = Append(events, [op |-> "phase", name |-> "deep"])
       ELSE /\ pc' = "watchtower_run_return"
            /\ UNCHANGED <<stack, events>>
    /\ UNCHANGED <<result, raw>>
    /\ UNCHANGED <<textVars, envVars, wtVars, mailVars, mainVars, synVars>>

\* Watchtower.run: return self.items_collected
WatchtowerRunReturn ==
    /\ pc = "watchtower_run_return"
    /\ Return(items_collected)
    /\ UNCHANGED <<textVars, envVars, wtVars, mailVars, mainVars, synVars, histVars>>

\* main, phase 1: a Watchtower, and the feed sweep alone (--quick) or run()
MainStart ==
    /\ pc = "main"
    /\ events' = Append(events, [op |-> "phase", name |-> "web"])
    /\ pc' = IF args.quick THEN "fetch_rss_intelligence" ELSE "watchtower_run"
    /\ stack' = <<"main_web_done">>
    /\ UNCHANGED <<result, raw>>
    /\ UNCHANGED <<textVars, envVars, wtVars, mailVars, mainVars, synVars>>

\* phase 2 gated by --no-email alone
MainWebDone_quick_ignored ==
    /\ pc = "main_web_done"
    /\ web_items' = result
    /\ email_items' = <<>>
    /\ IF ~ args.no_email
       THEN /\ pc' = "mailroom_run"
            /\ stack' = <<"main_mail_done">>
            /\ events' = Append(events, [op |-> "phase", name |-> "mail"])
       ELSE /\ pc' = "main_synthesis"
            /\ UNCHANGED <<stack, events>>
    /\ UNCHANGED <<result, args, exit_code, raw>>
    /\ UNCHANGED <<textVars, envVars, wtVars, mailVars, synVars>>

\* main, phase 2: web_items assigned; a Mailroom and its run(), or no email
MainWebDone ==
    /\ pc = "main_web_done"
    /\ web_items' = result
    /\ email_items' = <<>>
    /\ IF ~ args.no_email /\ ~ args.quick
       THEN /\ pc' = "mailroom_run"
            /\ stack' = <<"main_mail_done">>
            /\ events' = Append(events, [op |-> "phase", name |-> "mail"])
       ELSE /\ pc' = "main_synthesis"
            /\ UNCHANGED <<stack, events>>
    /\ UNCHANGED <<result, args, exit_code, raw>>
    /\ UNCHANGED <<textVars, envVars, wtVars, mailVars, synVars>>

\* main: email_items = mailroom.run()
MainMailDone ==
    /\ pc = "main_mail_done"
    /\ email_items' = result
    /\ pc' = "main_synthesis"
    /\ UNCHANGED <<stack, result, args, web_items, exit_code>>
    /\ UNCHANGED <<textVars, envVars, wtVars, mailVars, synVars, histVars>>

\* main, phase 3: a SynthesisCore and its run(web_items, email_items)
MainSynthesis ==
    /\ pc = "main_synthesis"
    /\ model' = NewModel(env)
    /\ events' = Append(events, [op |-> "phase", name |-> "synthesis"])
    /\ pc' = "synthesis_run"
    /\ stack' = <<"main_return">>
    /\ UNCHANGED <<result, intelligence_data, report, output_file, raw>>
    /\ UNCHANGED <<textVars, envVars, wtVars, mailVars, mainVars>>

\* main: return 0
MainReturn ==
    /\ pc = "main_return"
    /\ exit_code' = Some(0)
    /\ pc' = "returned"
    /\ UNCHANGED <<stack, result, args, web_items, email_items>>
    /\ UNCHANGED <<textVars, envVars, wtVars, mailVars, synVars, histVars>>

\* C3: the run always completes and always emits an output file, whatever
\* fails among the feed parser, the browser and its launch, the mailbox
\* authentication and queries, and the summarizer: no exception ends main,
\* and when main has ended it has saved a report and returned 0.
C3_RunAlwaysCompletes ==
    /\ pc # "uncaught_exception"
    /\ pc = "returned" => (output_file # None /\ exit_code = Some(0))

\* the two entries of the feed of a run of main: one with a breakthrough
\* keyword (and no customer_improvement keyword, which would win), one with
\* no keyword at all
ScenarioEntries == <<
    [title |-> <<"B","r","e","a","k","t","h","r","o","u","g","h"," ","m","o","d","e","l">>, link |-> <<"h","t","t","p",":","/","/","f","/","1">>, published |-> <<"M","o","n">>, summary |-> <<"<","p",">","A"," ","n","e","w"," ","m","o","d","e","l",".","<","/","p",">">>],
    [title |-> <<"R","e","l","e","a","s","e"," ","n","o","t","e","s">>, summary |-> <<>>] >>

-----------------------------------------------------------------------------
(* Claims about runs of main                                               *)

\* the visits of the sources of one sweep in the history
SweepVisits(sweep) ==
    SelectSeq(events, LAMBDA e : e.op = "source" /\ e.sweep = sweep)

\* did a phase of main start
PhaseStarted(name) == \E e \in Range(events) : e.op = "phase" /\ e.name = name

\* a finished run with the mailbox and page phases disabled by the flags, in
\* which one feed gave the two entries (one titled "Breakthrough model", one
\* with no keyword in it) and no other feed gave anything
OneFeedTwoEntries ==
    /\ pc = "returned"
    /\ exit_code = Some(0)
    /\ args.quick \/ (args.no_email /\ args.no_deep_web)
    /\ Cardinality({k \in 1..Len(SweepVisits("rss")) : SweepVisits("rss")[k].got > 0}) = 1
    /\ raw = ScenarioEntries

\* what the scenario promises of the items and the report file
TwoItemsAndBreakthroughSection ==
    /\ Len(web_items) = 2
    /\ Cardinality({k \in 1..Len(web_items) : web_items[k].category = "breakthrough"}) = 1
    /\ email_items = <<>>
    /\ output_file # None
    /\ output_file[1].content # <<>>
    /\ <<"#","#"," ","B","r","e","a","k","t","h","r","o","u","g","h","s"," ","(","1"," ","i","t","e","m","s",")">> \in Range(output_file[1].content)

\* C11 as claimed: a run with one feed returning 2 entries (one matching
\* "breakthrough", one matching no keyword) and the mailbox and page phases
\* disabled produces exactly 2 IntelligenceItems, exactly one of them
\* categorized breakthrough, and a non-empty report file that has a
\* "Breakthroughs (1 items)" section.
C11_EndToEnd == OneFeedTwoEntries => TwoItemsAndBreakthroughSection

\* C11 as amended: the same, for the runs in which the report is the fallback
\* report (no summarizer configured, or its call raised or answered nothing);
\* when the summarizer answers, the file holds the summarizer's text, still
\* for exactly 2 items of which one is a breakthrough.
C11_EndToEndFallback ==
    OneFeedTwoEntries =>
        /\ Len(web_items) = 2
        /\ Cardinality({k \in 1..Len(web_items) : web_items[k].category = "breakthrough"}) = 1
        /\ output_file # None
        /\ output_file[1].content # <<>>
        /\ FallbackCalled => TwoItemsAndBreakthroughSection
        /\ ~ FallbackCalled => output_file[1].content = events[Len(events)].answer.text[1]

\* C11 witness: such a run, without a summarizer, has written the report
C11_Witness ==
    /\ OneFeedTwoEntries
    /\ model = None
    /\ FallbackCalled
    /\ TwoItemsAndBreakthroughSection

\* the first n characters of s, written without the slicing of the model
FirstChars(s, n) == [i \in 1..(IF Len(s) < n THEN Len(s) ELSE n) |-> s[i]]

\* the keys of a parsed object, in the order of the document
KeysOf(d) == [k \in 1..Len(d.v) |-> d.v[k][1]]

\* does the parsed entry d mirror the web item
MirrorsWebItem(d, item) ==
    /\ d.t = "dict"
    /\ DictGet(d, <<"t","i","t","l","e">>, PyNull) = PyStr(item.title)
    /\ DictGet(d, <<"s","o","u","r","c","e">>, PyNull) = PyStr(item.source)
    /\ DictGet(d, <<"c","a","t","e","g","o","r","y">>, PyNull) = PyStr(NameChars(item.category))
    /\ DictGet(d, <<"l","i","n","k">>, PyNull) = PyStr(item.link)
    /\ DictGet(d, <<"s","u","m","m","a","r","y">>, PyNull) = PyStr(FirstChars(item.summary, 500))
    /\ LET ms == DictGet(d, <<"m","e","t","r","i","c","s">>, PyNull)
       IN  /\ ms.t = "list"
           /\ Len(ms.v) = Len(item.metrics)
           /\ \A k \in 1..Len(ms.v) :
                 /\ DictGet(ms.v[k], <<"t","y","p","e">>, PyNull) = PyStr(NameChars(item.metrics[k].type))
                 /\ DictGet(ms.v[k], <<"v","a","l","u","e">>, PyNull) = PyStr(item.metrics[k].value)
                 /\ DictGet(ms.v[k], <<"c","o","n","t","e","x","t">>, PyNull) = PyStr(item.metrics[k].context)

\* does the parsed entry d carry the attachment excerpt of the email item
MirrorsEmailItem(d, item) ==
    /\ d.t = "dict"
    /\ DictGet(d, <<"s","u","b","j","e","c","t">>, PyNull) = PyStr(item.subject)
    /\ DictHas(d, <<"p","d","f","_","e","x","c","e","r","p","t">>)
    /\ DictGet(d, <<"p","d","f","_","e","x","c","e","r","p","t">>, PyStr(<<>>)) =
          IF item.pdf_content = None \/ item.pdf_content[1] = <<>>
          THEN PyNull
          ELSE PyStr(FirstChars(item.pdf_content[1], 1000))

\* C12: for all lists of web items and email items, parsing the output of
\* prepare_intelligence_data yields an object with exactly the two lists
\* web_intelligence and email_intelligence, of the same lengths and in the
\* same order as the inputs, each web entry carrying the item's title, source,
\* category, metrics, link and its summary cut to at most 500 characters, each
\* email entry carrying its attachment excerpt cut to at most 1000 characters
\* (null when the item has no extracted text).
C12_ExchangeDocumentRoundTrip ==
    intelligence_data \notin Unparseable =>
        LET parsed == json_loads(intelligence_data)
        IN  /\ parsed.ok
            /\ parsed.value.t = "dict"
            /\ KeysOf(parsed.value) = <<<<"w","e","b","_","i","n","t","e","l","l","i","g","e","n","c","e">>, <<"e","m","a","i","l","_","i","n","t","e","l","l","i","g","e","n","c","e">>>>
            /\ LET web   == parsed.value.v[1][2]
                   email == parsed.value.v[2][2]
               IN  /\ web.t = "list" /\ email.t = "list"
                   /\ Len(web.v) = Len(web_items)
                   /\ Len(email.v) = Len(email_items)
                   /\ \A k \in 1..Len(web.v) : MirrorsWebItem(web.v[k], web_items[k])
                   /\ \A k \in 1..Len(email.v) : MirrorsEmailItem(email.v[k], email_items[k])

\* C12 witness: run has prepared the document of a web item whose summary is
\* longer than 500 characters, of an email item whose extracted text is longer
\* than 1000 characters and of an email item with no extracted text
C12_Witness ==
    /\ pc = "synthesize_with_gemini"
    /\ stack = <<"save_report">>
    /\ json_loads(intelligence_data).ok
    /\ \E k \in 1..Len(web_items) : Len(web_items[k].summary) > 500
    /\ \E k \in 1..Len(email_items) :
          /\ email_items[k].pdf_content # None
          /\ Len(email_items[k].pdf_content[1]) > 1000
    /\ \E k \in 1..Len(email_items) : email_items[k].pdf_content = None

\* a call of fallback_synthesize by itself has returned its report
FallbackReturned ==
    /\ pc = "returned"
    /\ events # <<>>
    /\ events[Len(events)].op = "fallback"

\* C13: any two calls of fallback_synthesize with the same exchange document
\* return the same report text, whatever the clock reads at each call: the
\* report a call has returned is the report of a call with the same document
\* at every other instant.
C13_FallbackDeterministic ==
    FallbackReturned =>
        \A t \in Instants : fallback_synthesize(intelligence_data, t) = Some(result)

\* the report at hand is a fallback report of the lists web_items, email_items
FallbackReportAtHand ==
    /\ pc \in {"save_report", "returned"}
    /\ FallbackCalled
    /\ intelligence_data \notin Unparseable

\* the lines of the section of a report under the heading that starts as given,
\* down to the empty line that ends it
SectionOf(rep, heading) ==
    LET h   == CHOOSE i \in 1..Len(rep) : StartsWith(rep[i], heading)
        end == Min({j \in (h + 1)..Len(rep) : rep[j] = <<>>})
    IN  SubSeq(rep, h + 1, end - 1)

\* the lines that list an item (the lines below them are indented)
Listed(section) == SelectSeq(section, LAMBDA l : StartsWith(l, <<"-"," ">>))

\* the web items of a category, in the order of the list
OfCategory(cat) == SelectSeq(web_items, LAMBDA i : i.category = cat)

\* the first n elements of a list, at most
FirstOnes(s, n) == [k \in 1..(IF Len(s) < n THEN Len(s) ELSE n) |-> s[k]]

\* C17: in the fallback report the Breakthroughs, Customer Improvements and
\* Use Cases sections each list at most 10 items, and the White Papers
\* section lists at most 5 white_paper web items followed by at most 5 email
\* items; within each section the listed items are the first ones of their
\* bucket, in the order they have in the exchange document.
C17_SectionDisplayCaps ==
    FallbackReportAtHand =>
        /\ Listed(SectionOf(result, <<"#","#"," ","B","r","e","a","k","t","h","r","o","u","g","h","s"," ","(">>)) =
              [k \in DOMAIN FirstOnes(OfCategory("breakthrough"), 10) |->
                  <<"-"," ","*","*">> \o OfCategory("breakthrough")[k].title \o <<"*","*"," ","(">>
                  \o OfCategory("breakthrough")[k].source \o <<")">>]
        /\ Listed(SectionOf(result, <<"#","#"," ","C","u","s","t","o","m","e","r"," ","I","m","p","r","o","v","e","m","e","n","t","s"," ","(">>)) =
              [k \in DOMAIN FirstOnes(OfCategory("customer_improvement"), 10) |->
                  <<"-"," ","*","*">> \o OfCategory("customer_improvement")[k].title \o <<"*","*"," ","(">>
                  \o OfCategory("customer_improvement")[k].source \o <<")">>]
        /\ Listed(SectionOf(result, <<"#","#"," ","U","s","e"," ","C","a","s","e","s"," ","(">>)) =
              [k \in DOMAIN FirstOnes(OfCategory("use_case"), 10) |->
                  <<"-"," ","[">> \o OfCategory("use_case")[k].title \o <<"]","(">>
                  \o OfCategory("use_case")[k].link \o <<")">>]
        /\ Listed(SectionOf(result, <<"#","#"," ","W","h","i","t","e"," ","P","a","p","e","r","s"," ","(">>)) =
              [k \in DOMAIN FirstOnes(OfCategory("white_paper"), 5) |->
                  <<"-"," ","*","*">> \o OfCategory("white_paper")[k].title \o <<"*","*">>]
              \o [k \in DOMAIN FirstOnes(email_items, 5) |->
                  <<"-"," ","*","*">> \o email_items[k].subject \o <<"*","*"," ","(","f","r","o","m",":"," ">>
                  \o FirstOnes(email_items[k].sender, 30) \o <<")">>]

\* C17 witness: a fallback report was made of lists with 11 items in each of
\* the three capped buckets, 6 white_paper web items and 6 email items
C17_Witness ==
    /\ FallbackReportAtHand
    /\ pc = "returned"
    /\ Len(OfCategory("breakthrough")) = 11
    /\ Len(OfCategory("customer_improvement")) = 11
    /\ Len(OfCategory("use_case")) = 11
    /\ Len(OfCategory("white_paper")) = 6
    /\ Len(email_items) = 6
    /\ Len(Listed(SectionOf(result, <<"#","#"," ","W","h","i","t","e"," ","P","a","p","e","r","s"," ","(">>))) = 10

\* the stage of a run an entry of the history belongs to: the feed sweep,
\* the page sweep, the mailbox sweep, the synthesis
StageOf(e) ==
    CASE e.op = "phase" /\ e.name = "web"       -> 1
      [] e.op \in {"source", "fetched"} /\ e.sweep = "rss"  -> 1
      [] e.op = "phase" /\ e.name = "deep"      -> 2
      [] e.op \in {"launch", "close"}           -> 2
      [] e.op \in {"source", "fetched"} /\ e.sweep = "deep" -> 2
      [] e.op = "phase" /\ e.name = "mail"      -> 3
      [] e.op \in {"authenticate", "list", "get"} -> 3
      [] e.op \in {"source", "fetched"} /\ e.sweep = "mail" -> 3
      [] e.op = "phase" /\ e.name = "synthesis" -> 4
      [] OTHER                                  -> 4

\* C18: the feed sweep runs in every run; the page-rendering sweep runs (is
\* called) if and only if neither --quick nor --no-deep-web is given; the
\* mailbox sweep runs (is called) if and only if neither --quick nor
\* --no-email is given; phases run in the order web collection, mailbox
\* collection, synthesis, and main returns exit code 0 on completion.
C18_PhaseGating ==
    /\ PhaseStarted("deep") => (~ args.quick /\ ~ args.no_deep_web)
    /\ PhaseStarted("mail") => (~ args.quick /\ ~ args.no_email)
    /\ \A j, k \in 1..Len(events) : j < k => StageOf(events[j]) <= StageOf(events[k])
    /\ \A name \in {"deep", "mail", "synthesis"} :
          PhaseStarted(name) => Len(SweepVisits("rss")) = NumFeeds
    /\ exit_code # None => (pc = "returned" /\ exit_code = Some(0))
    /\ pc = "returned" =>
          /\ exit_code = Some(0)
          /\ Len(SweepVisits("rss")) = NumFeeds
          /\ PhaseStarted("deep") <=> (~ args.quick /\ ~ args.no_deep_web)
          /\ PhaseStarted("mail") <=> (~ args.quick /\ ~ args.no_email)
          /\ PhaseStarted("synthesis")

\* C18 witness: a run without flags has swept feeds, pages and mailbox, made
\* its report and returned 0
C18_Witness ==
    /\ pc = "returned"
    /\ exit_code = Some(0)
    /\ ~ args.quick /\ ~ args.no_email /\ ~ args.no_deep_web
    /\ SweepVisits("rss") # <<>>
    /\ SweepVisits("deep") # <<>>
    /\ SweepVisits("mail") # <<>>
    /\ output_file # None

-----------------------------------------------------------------------------
(* Calls, one after another, on one Watchtower and one Mailroom            *)

\* a caller makes at most this many calls
MaxCalls == 2

\* the methods a caller calls
Methods == {"fetch_rss_intelligence", "fetch_deep_web_intelligence",
            "watchtower_run", "search_whitepapers"}

\* the calls made so far
Calls == SelectSeq(events, LAMBDA e : e.op = "call")

\* the caller calls a method of the instance it holds, when no call is
\* running: at first, after a return, or after an exception it caught
Call ==
    /\ pc \in {"idle", "returned", "uncaught_exception"}
    /\ Len(Calls) < MaxCalls
    /\ \E method \in Methods :
          /\ pc' = method
          /\ events' = Append(events, [op |-> "call", name |-> method])
    /\ stack' = <<>>
    /\ UNCHANGED <<result, raw>>
    /\ UNCHANGED <<textVars, envVars, wtVars, mailVars, mainVars, synVars>>

\* the item lists the fetches of the Watchtower have produced, in call order
WebFetches ==
    SelectSeq(events, LAMBDA e : e.op = "fetched" /\ e.sweep \in {"rss", "deep"})

\* the item lists the sweeps of the Mailroom have produced
MailFetches == SelectSeq(events, LAMBDA e : e.op = "fetched" /\ e.sweep = "mail")

\* the position in the history of the last call
LastCallAt == CHOOSE k \in 1..Len(events) :
                  /\ events[k].op = "call"
                  /\ \A j \in (k + 1)..Len(events) : events[j].op # "call"

\* the items of the Watchtower's fetches before the last call
FetchedBeforeLastCall ==
    LET before == SelectSeq(SubSeq(events, 1, LastCallAt),
                      LAMBDA e : e.op = "fetched" /\ e.sweep \in {"rss", "deep"})
    IN  Concat([k \in 1..Len(before) |-> before[k].items])

\* the last call was one of Watchtower.run and has returned
RunReturned ==
    /\ pc = "returned"
    /\ Calls # <<>>
    /\ events[LastCallAt].name = "watchtower_run"

\* C20: Watchtower.items_collected only grows: after any sequence of
\* fetch_rss_intelligence, fetch_deep_web_intelligence and run calls on one
\* instance it is the concatenation, in call order, of the item lists
\* produced by every fetch so far; run returns that whole list, feed items
\* before page items within a run, so a second run returns the first run's
\* items again; Mailroom.search_whitepapers replaces its items_collected with
\* the items of the latest sweep only.
C20_ItemsCollectedAccumulates ==
    /\ items_collected = Concat([k \in 1..Len(WebFetches) |-> WebFetches[k].items])
    /\ RunReturned =>
          /\ result = items_collected
          /\ IsPrefixOf(FetchedBeforeLastCall, result)
          /\ LET during == SelectSeq(SubSeq(events, LastCallAt, Len(events)),
                               LAMBDA e : e.op = "fetched")
             IN  /\ Len(during) = 2
                 /\ during[1].sweep = "rss" /\ during[2].sweep = "deep"
                 /\ result = FetchedBeforeLastCall \o during[1].items \o during[2].items
    /\ mail_items_collected =
          IF MailFetches = <<>> THEN <<>> ELSE MailFetches[Len(MailFetches)].items

\* C20 witness: a second run on the same Watchtower has returned the items of
\* the first run followed by its own feed and page items
C20_Witness ==
    /\ RunReturned
    /\ Len(Calls) = 2
    /\ Calls[1].name = "watchtower_run"
    /\ FetchedBeforeLastCall # <<>>
    /\ Len(WebFetches) = 4
    /\ WebFetches[3].items # <<>> /\ WebFetches[4].items # <<>>
    /\ Len(result) > Len(FetchedBeforeLastCall) + Len(WebFetches[3].items)

-----------------------------------------------------------------------------
(* Specifications                                                          *)

NoArgs == [quick |-> FALSE, no_email |-> FALSE, no_deep_web |-> FALSE]

AllPresent == [playwright |-> TRUE, gmail_api |-> TRUE, credentials |-> TRUE,
               pdf |-> TRUE, gemini |-> TRUE, api_key |-> TRUE]

TextIdle ==
    /\ text = <<>>
    /\ textPc = "idle"
    /\ category = "none"
    /\ metrics = <<>>

\* the objects as their constructors leave them
Constructed ==
    /\ stack = <<>>
    /\ result = <<>>
    /\ items_collected = <<>>
    /\ items = <<>>
    /\ src_i = 1
    /\ service = None
    /\ seen_ids = {}
    /\ mail_items_collected = <<>>
    /\ web_items = <<>>
    /\ email_items = <<>>
    /\ exit_code = None
    /\ intelligence_data = <<>>
    /\ report = <<>>
    /\ output_file = None
    /\ events = <<>>
    /\ raw = <<>>

PipelineIdle ==
    /\ Constructed
    /\ pc = "idle"
    /\ clock = 0
    /\ env = AllPresent
    /\ args = NoArgs
    /\ model = None

\* calls of categorize_content
CategorizeInit == TextInit(CatTexts) /\ PipelineIdle

SpecCategorize == CategorizeInit /\ [][Categorize]_vars

\* calls of extract_metrics
MetricsInit == TextInit(MetTexts) /\ PipelineIdle

SpecMetrics == MetricsInit /\ [][ExtractMetrics]_vars

\* one call of one of the three sweeps on a fresh Watchtower or on a Mailroom
\* (authenticated or not)
CollectInit ==
    /\ TextIdle
    /\ Constructed
    /\ clock = 0
    /\ args = NoArgs
    /\ model = None
    /\ \/ /\ pc = "fetch_rss_intelligence"
          /\ env = AllPresent
       \/ /\ pc = "fetch_deep_web_intelligence"
          /\ env \in {[AllPresent EXCEPT !.playwright = b] : b \in BOOLEAN}
       \/ /\ pc = "search_whitepapers"
          /\ env \in {[AllPresent EXCEPT !.pdf = b] : b \in BOOLEAN}

\* a Mailroom on which authenticate() succeeded before the call
CollectAuthenticated ==
    /\ pc = "search_whitepapers"
    /\ service = None
    /\ service' = Some("gmail")
    /\ UNCHANGED <<seen_ids, mail_items_collected, events, raw>>
    /\ UNCHANGED <<textVars, ctlVars, envVars, wtVars, mainVars, synVars>>

CollectNext ==
    \/ FetchRssEnter
    \/ FeedStep(Feeds, FeedOutcomes)
    \/ FetchRssReturn(Feeds)
    \/ FetchDeepEnter
    \/ PageStep(Pages, PageOutcomes)
    \/ FetchDeepReturn(Pages)
    \/ CollectAuthenticated
    \/ SearchEnter
    \/ QueryStep(Queries, QueryOutcomes)
    \/ SearchReturn(Queries)

SpecCollect == CollectInit /\ [][CollectNext]_vars


\* calls of SynthesisCore.run on item lists, and of synthesize_with_gemini
\* and fallback_synthesize on their exchange document or on a text that is
\* no JSON, with and without a model
SynthInit ==
    /\ TextIdle
    /\ stack = <<>> /\ result = <<>>
    /\ items_collected = <<>> /\ items = <<>> /\ src_i = 1
    /\ service = None /\ seen_ids = {} /\ mail_items_collected = <<>>
    /\ report = <<>> /\ output_file = None /\ exit_code = None
    /\ events = <<>> /\ raw = <<>>
    /\ clock = 0
    /\ args = NoArgs
    /\ env \in {[AllPresent EXCEPT !.api_key = b] : b \in BOOLEAN}
    /\ model = NewModel(env)
    /\ web_items \in SampleWebLists
    /\ email_items \in SampleEmailLists
    /\ \/ /\ pc = "synthesis_run"
          /\ intelligence_data = <<>>
       \/ /\ pc \in {"synthesize_with_gemini", "fallback_synthesize"}
          /\ \/ intelligence_data = prepare_intelligence_data(web_items, email_items)
             \/ /\ web_items = <<>> /\ email_items = <<>>
                /\ intelligence_data \in Unparseable

SynthNext ==
    \/ SynthesisRun
    \/ SynthesizeWithGemini
    \/ FallbackSynthesize
    \/ SaveReport
    \/ Tick

SpecSynth == SynthInit /\ [][SynthNext]_vars

\* what the feed parser, the browser and the mailbox answer in runs of main
MainFeedOutcomes ==
    { FeedAnswer(Some(<<"L","a","b"," ","b","l","o","g">>), ScenarioEntries, 0),
      [kind |-> "raise"] }

MainPageOutcomes ==
    { PageAnswer(<<Articles[1]>>, 0), [kind |-> "raise"] }

MainQueryOutcomes ==
    { QueryAnswer(<<<<"m","1">>>>, 0, CHOOSE o \in PartOutcomes : o.download[1] = "ok" /\ o.reading[1] = "ok"),
      [kind |-> "raise"] }

\* runs of main under every combination of the command-line flags, with and
\* without Playwright, the Gmail credentials and the summarizer's key
MainInit ==
    /\ TextIdle
    /\ Constructed
    /\ pc = "main"
    /\ clock = 0
    /\ model = None
    /\ args \in [quick : BOOLEAN, no_email : BOOLEAN, no_deep_web : BOOLEAN]
    /\ env \in {[AllPresent EXCEPT !.playwright = a, !.credentials = b, !.api_key = c] :
                   a \in BOOLEAN, b \in BOOLEAN, c \in BOOLEAN}

MainNext ==
    \/ MainStart
    \/ WatchtowerRun
    \/ FetchRssEnter
    \/ FeedStep(Feeds, MainFeedOutcomes)
    \/ FetchRssReturn(Feeds)
    \/ WatchtowerRunDeep
    \/ FetchDeepEnter
    \/ PageStep(Pages, MainPageOutcomes)
    \/ FetchDeepReturn(Pages)
    \/ WatchtowerRunReturn
    \/ MainWebDone
    \/ MailroomRun
    \/ SearchEnter
    \/ QueryStep(Queries, MainQueryOutcomes)
    \/ SearchReturn(Queries)
    \/ MailroomRunReturn
    \/ MainMailDone
    \/ MainSynthesis
    \/ SynthesisRun
    \/ SynthesizeWithGemini
    \/ SaveReport
    \/ MainReturn

SpecMain == MainInit /\ [][MainNext]_vars

\* the single feed, page and query of the instances called again and again
ReuseFeeds == <<Feeds[1]>>
ReusePages == <<Pages[1]>>
ReuseQueries == <<Queries[1]>>

\* a fresh Watchtower and a fresh Mailroom, with and without Playwright, on
\* which a caller makes one call after another
ReuseInit ==
    /\ TextIdle
    /\ Constructed
    /\ pc = "idle"
    /\ clock = 0
    /\ args = NoArgs
    /\ model = None
    /\ env \in {[AllPresent EXCEPT !.playwright = b] : b \in BOOLEAN}

ReuseNext ==
    \/ Call
    \/ WatchtowerRun
    \/ FetchRssEnter
    \/ FeedStep(ReuseFeeds, MainFeedOutcomes)
    \/ FetchRssReturn(ReuseFeeds)
    \/ WatchtowerRunDeep
    \/ FetchDeepEnter
    \/ PageStep(ReusePages, MainPageOutcomes)
    \/ FetchDeepReturn(ReusePages)
    \/ WatchtowerRunReturn
    \/ CollectAuthenticated
    \/ SearchEnter
    \/ QueryStep(ReuseQueries, MainQueryOutcomes)
    \/ SearchReturn(ReuseQueries)

SpecReuse == ReuseInit /\ [][ReuseNext]_vars

=========================================================================
